---------------------------- MODULE Spec2Model ----------------------------
(***************************************************************************)
(* A model of the SMILES parser of ts-smilesParser.                        *)
(*                                                                         *)
(*   src/src/classes/SMILES.ts   SMILES.parse, SMILES._tryParse,           *)
(*                               SMILES._parse, ParsedSMILES               *)
(*   src/unnamed/part_000        Molecule (the graph algorithms)           *)
(*                                                                         *)
(* The input string is a sequence of one-character strings.  It is drawn   *)
(* in Init from bounded families of strings; the parser then runs over it  *)
(* one loop iteration of SMILES._parse per step, followed by the           *)
(* validation pass of SMILES.parse, one step per block of that pass.  An   *)
(* accepted result is re-serialized (ParsedSMILES.generateSMILES) and the  *)
(* generated text is parsed a second time (run = 2).                       *)
(*                                                                         *)
(* Atom identities are the indexes 1, 2, ... of the sequence atoms, in     *)
(* creation order (Group.ID is a creation counter; a JavaScript object     *)
(* with integer keys is iterated in ascending key order).                  *)
(*                                                                         *)
(* Bracket atoms "[...]" are modelled as switched off (the option          *)
(* enableInorganicAtoms is false in every modelled configuration), so no   *)
(* atom carries the radical flag.  Bond weights are kept doubled so that   *)
(* the aromatic weight 1.5 stays an integer (3).                           *)
(***************************************************************************)
EXTENDS Integers, Sequences, FiniteSets, TLC

VARIABLES
  smiles,          \* the input string of the running parse
  opts,            \* the effective parse options
  pc,              \* position in SMILES.parse
  stack,           \* the activation records of SMILES._parse (one per chain depth)
  atoms,           \* every Group created so far; its index is its ID
  molecules,       \* ps.molecules: <<[groups, rings]>>, rings as indexes into rings
  rings,           \* ps.rings
  openRings,       \* ps.openRings: digit -> index into rings
  reactionIndexes, \* ps.reactionIndexes
  groupMap,        \* the keys of ps.groupMap
  err,             \* the error raised, when pc is "error" or "crash"
  run,             \* 1: parse of the input, 2: parse of the re-serialized text
  first,           \* what the first parse produced (kept for the second run)
  molRefs,         \* the Molecule objects of ps.molecules, each by its identity
  returned         \* what the last method called on the parse result returned

vars == <<smiles, opts, pc, stack, atoms, molecules, rings, openRings,
          reactionIndexes, groupMap, err, run, first, molRefs, returned>>

---------------------------------------------------------------------------
(* Bounds of the model: the longest input of each input family.            *)

MaxLenRing == 8

MaxLenBranch == 8

MaxLenSeparated == 5

MaxLenReaction == 6

MaxLenCharge == 5

MaxLenValence == 4

MaxLenLowercase == 8

MaxLenAromatic == 7

MaxLenEdited == 5

MaxLenClause == 7
MaxLenSevered == 5
MaxLenFused == 9
\* the number of iterations after which the model leaves the loop of pathfind
MaxIterations == 64

\* the most molecules a parse result is grown to by addMolecule
MaxMolecules == 4

---------------------------------------------------------------------------
(* Sequence helpers.                                                       *)

Last(s) == s[Len(s)]

Pop(s) == IF s = <<>> THEN <<>> ELSE SubSeq(s, 1, Len(s) - 1)

Range(s) == {s[i] : i \in DOMAIN s}

RECURSIVE Flatten(_)
Flatten(ss) == IF ss = <<>> THEN <<>> ELSE Head(ss) \o Flatten(Tail(ss))

Max(S) == CHOOSE x \in S : \A y \in S : y <= x

\* array.splice(i, 1), i from 0
SpliceOut(arr, i) == SubSeq(arr, 1, i) \o SubSeq(arr, i + 2, Len(arr))

---------------------------------------------------------------------------
(* Lexical tables (utils and data-vars of the repository).                 *)

isBondChar(c) == c \in {"-", "=", "#", ":"}

isDigitChar(c) == c \in {"0", "1", "2", "3", "4", "5", "6", "7", "8", "9"}

DigitValue(c) ==
  CASE c = "0" -> 0 [] c = "1" -> 1 [] c = "2" -> 2 [] c = "3" -> 3
    [] c = "4" -> 4 [] c = "5" -> 5 [] c = "6" -> 6 [] c = "7" -> 7
    [] c = "8" -> 8 [] c = "9" -> 9

DigitChar(n) == <<"0", "1", "2", "3", "4", "5", "6", "7", "8", "9">>[n + 1]

\* organicSubset: element -> allowed valences, in ascending order
organicSubset ==
  [e \in {"B", "C", "N", "O", "F"} |->
     CASE e = "B" -> <<3>>
       [] e = "C" -> <<4>>
       [] e = "N" -> <<3, 5>>
       [] e = "O" -> <<2>>
       [] e = "F" -> <<1>>]

lowercaseRingAtoms == {"b", "c", "n", "o"}

ToUpper(c) ==
  CASE c = "b" -> "B" [] c = "c" -> "C" [] c = "n" -> "N" [] c = "o" -> "O"
    [] OTHER -> c

ToLower(c) ==
  CASE c = "B" -> "b" [] c = "C" -> "c" [] c = "N" -> "n" [] c = "O" -> "o"
    [] OTHER -> c

\* extractElement on a one-character symbol: the symbol, or "" when the
\* text does not start with an element
extractElement(c) ==
  IF c \in DOMAIN organicSubset \/ c \in lowercaseRingAtoms THEN c ELSE ""

\* getBondNumber, doubled: single 1, double 2, triple 3, aromatic 1.5
getBondNumber2(b) ==
  CASE b = "-" -> 2 [] b = "=" -> 4 [] b = "#" -> 6 [] b = ":" -> 3
    [] OTHER -> 0

---------------------------------------------------------------------------
(* Group (the atom record) and Group.addBond.                              *)

NewGroup(el, lower, implicit, depth, position) ==
  [el |-> el, isLowercase |-> lower, charge |-> 0, isRadical |-> FALSE,
   isImplicit |-> implicit, chainDepth |-> depth,
   smilesStringPosition |-> position, smilesStringLength |-> 1,
   ringDigits |-> <<>>, bonds |-> <<>>]

\* Group.inOrganicSubset
inOrganicSubset(g) == g.el \in DOMAIN organicSubset

\* whether a bond record between a and b is stored on either atom
Bonded(A, a, b) ==
  \/ \E i \in DOMAIN A[a].bonds : A[a].bonds[i].dest = b
  \/ \E i \in DOMAIN A[b].bonds : A[b].bonds[i].dest = a

\* Group.addBond that refuses nothing
addBondAlways(A, src, dest) == TRUE

\* Group.addBond: the bond is stored on the source atom only; it is refused
\* when the two atoms are the same or already bonded
addBondOk(A, src, dest) == src # dest /\ ~Bonded(A, src, dest)

addBond(A, src, bond, dest) ==
  IF addBondOk(A, src, dest)
  THEN [A EXCEPT ![src].bonds = Append(@, [bond |-> bond, dest |-> dest])]
  ELSE A

---------------------------------------------------------------------------
(* Molecule: graph primitives.  A is the atom table, G the molecule's own  *)
(* set of atom IDs (the keys of this.groups).                              *)

\* the IDs of G in ascending order (for ... in this.groups)
Keys(A, G) == SelectSeq([i \in 1 .. Len(A) |-> i], LAMBDA i : i \in G)

Incoming(A, g, gid) ==
  LET hits == SelectSeq(A[g].bonds, LAMBDA b : b.dest = gid)
  IN  [i \in 1 .. Len(hits) |-> [bond |-> hits[i].bond, dest |-> g]]

\* Molecule.getAllBonds: own bonds, then the bonds of every other atom of
\* the molecule that end here, with dest turned round
getAllBonds(A, G, gid) ==
  LET ks == SelectSeq(Keys(A, G),
                      LAMBDA k : /\ k # gid
                                 /\ \E i \in DOMAIN A[k].bonds :
                                      A[k].bonds[i].dest = gid)
  IN  A[gid].bonds \o Flatten([k \in 1 .. Len(ks) |-> Incoming(A, ks[k], gid)])

RECURSIVE SumWeights(_)
SumWeights(bs) ==
  IF bs = <<>> THEN 0 ELSE getBondNumber2(Head(bs).bond) + SumWeights(Tail(bs))

\* Molecule.getBondCount, doubled
getBondCount2(A, G, gid) == SumWeights(getAllBonds(A, G, gid))

---------------------------------------------------------------------------
(* Molecule.pathfind and Molecule.traceBondPath.                           *)
(* A path is a sequence of 0-based indexes into getAllBonds of the atom    *)
(* reached so far.  The search yields [crashed, paths].                    *)

\* "bonds[bi].dest === currGroups[currGroups.length - 2]"
IsBacktrack(currGroups, dest) ==
  Len(currGroups) >= 2 /\ dest = currGroups[Len(currGroups) - 1]

\* "explored.set(gid, bi + 1)" replaced by a cursor put back to the first bond
CursorReset(explored, gid, bi) == [explored EXCEPT ![gid] = 0]

\* "explored.set(gid, bi + 1)"
NextCursor(explored, gid, bi) == [explored EXCEPT ![gid] = bi + 1]

\* the loop with the number of iterations made so far; ended: the loop was
\* left by its own test or by a TypeError, and not because the model stopped
\* it after MaxIterations iterations
RECURSIVE pathfindLoop(_, _, _, _, _, _, _, _)
pathfindLoop(allBonds, endID, available, paths, current, currGroups, explored, iterations) ==
  IF currGroups = <<>>
  THEN [crashed |-> FALSE, paths |-> paths, iterations |-> iterations,
        ended |-> TRUE]
  ELSE IF iterations >= MaxIterations
  THEN [crashed |-> FALSE, paths |-> paths, iterations |-> iterations,
        ended |-> FALSE]
  ELSE
    LET gid == Last(currGroups) IN
    IF gid = endID
    THEN pathfindLoop(allBonds, endID, available, Append(paths, current),
                      Pop(current), Pop(currGroups), explored, iterations + 1)
    ELSE IF gid \notin DOMAIN allBonds
    THEN [crashed |-> TRUE, paths |-> paths, iterations |-> iterations,
          ended |-> TRUE]
    ELSE
      LET bonds == allBonds[gid]
          bi    == explored[gid]
      IN
      IF bi < Len(bonds)
      THEN
        LET dest == bonds[bi + 1].dest
            next == NextCursor(explored, gid, bi)
        IN
        IF IsBacktrack(currGroups, dest) \/ dest \notin available
        THEN pathfindLoop(allBonds, endID, available, paths, current,
                          currGroups, next, iterations + 1)
        ELSE pathfindLoop(allBonds, endID, available, paths,
                          Append(current, bi), Append(currGroups, dest), next,
                          iterations + 1)
      ELSE pathfindLoop(allBonds, endID, available, paths, Pop(current),
                        Pop(currGroups), explored, iterations + 1)

pathfind(A, G, startID, endID, available) ==
  pathfindLoop([g \in G |-> getAllBonds(A, G, g)], endID, available,
               <<>>, <<>>, <<startID>>, [g \in G |-> 0], 0)

RECURSIVE traceBondPath(_, _, _, _)
traceBondPath(A, G, startID, path) ==
  IF path = <<>> THEN <<startID>>
  ELSE <<startID>> \o
       traceBondPath(A, G, getAllBonds(A, G, startID)[Head(path) + 1].dest,
                     Tail(path))

\* Math.max over the path lengths and paths.find: the first longest path
LongestPath(paths) ==
  LET llen == Max({Len(paths[i]) : i \in DOMAIN paths})
  IN  paths[CHOOSE i \in DOMAIN paths :
              /\ Len(paths[i]) = llen
              /\ \A j \in 1 .. i - 1 : Len(paths[j]) # llen]

---------------------------------------------------------------------------
(* Molecule.addImplicitHydrogens and Molecule.checkBondCounts.             *)

\* the last allowed valence n with n >= bonds (doubled), 0 when there is none
LargestTarget2(el, bonds2) ==
  LET vs == organicSubset[el]
      ok == {i \in DOMAIN vs : 2 * vs[i] >= bonds2}
  IN  IF ok = {} THEN 0 ELSE 2 * vs[CHOOSE i \in ok : \A j \in ok : i >= j]

\* the first allowed valence n with n >= bonds (doubled), 0 when there is none
TargetBonds2(el, bonds2) ==
  LET vs == organicSubset[el]
      ok == {i \in DOMAIN vs : 2 * vs[i] >= bonds2}
  IN  IF ok = {} THEN 0 ELSE 2 * vs[CHOOSE i \in ok : \A j \in ok : i <= j]

\* the number of passes of  for (h = 0; h < targetBonds - bonds; h++)
HydrogenCount(el, bonds2) ==
  LET t2 == TargetBonds2(el, bonds2)
  IN  IF t2 = 0 \/ t2 <= bonds2 THEN 0 ELSE (t2 - bonds2 + 1) \div 2

NeedsHydrogens(g) == ~g.isRadical /\ inOrganicSubset(g) /\ g.charge = 0

RECURSIVE AppendHydrogens(_, _, _)
AppendHydrogens(A, gid, n) ==
  IF n = 0 THEN A
  ELSE LET H  == NewGroup("H", FALSE, TRUE, A[gid].chainDepth + 1, 0)
           A1 == Append(A, H)
       IN  AppendHydrogens(addBond(A1, gid, "-", Len(A1)), gid, n - 1)

\* the loop over this.groups (keys as they were when the loop started);
\* yields the atom table and the molecule's grown key set
RECURSIVE addHydrogensLoop(_, _, _)
addHydrogensLoop(A, G, ks) ==
  IF ks = <<>> THEN [atoms |-> A, groups |-> G]
  ELSE
    LET gid == Head(ks)
        n   == IF NeedsHydrogens(A[gid])
               THEN HydrogenCount(A[gid].el, getBondCount2(A, G, gid))
               ELSE 0
        A1  == AppendHydrogens(A, gid, n)
    IN  addHydrogensLoop(A1, G \cup (Len(A) + 1 .. Len(A1)), Tail(ks))

addImplicitHydrogens(A, G) == addHydrogensLoop(A, G, Keys(A, G))

\* checkBondCounts with its test never true
BondCountCheckedNever(g) == FALSE

\* the test of checkBondCounts on one atom
BondCountChecked(g) == g.charge = 0 /\ ~g.isRadical /\ inOrganicSubset(g)

ValenceAllowed(el, bonds2) ==
  \E i \in DOMAIN organicSubset[el] : 2 * organicSubset[el][i] = bonds2

\* Molecule.checkBondCounts: 0 when valid, else the first offending atom
checkBondCounts(A, G) ==
  LET ks  == Keys(A, G)
      bad == {k \in DOMAIN ks :
                /\ BondCountChecked(A[ks[k]])
                /\ ~ValenceAllowed(A[ks[k]].el, getBondCount2(A, G, ks[k]))}
  IN  IF bad = {} THEN 0 ELSE ks[CHOOSE k \in bad : \A j \in bad : k <= j]

---------------------------------------------------------------------------
(* Molecule.generateSMILES and ParsedSMILES.generateSMILES.                *)
(* Text is a sequence of one-character strings.                            *)

RECURSIVE ChargeClauses(_)
ChargeClauses(c) ==
  IF c = 0 THEN <<>>
  ELSE IF c > 0 THEN <<"{", "+", "}">> \o ChargeClauses(c - 1)
  ELSE <<"{", "-", "}">> \o ChargeClauses(c + 1)

\* Group.toString: the element symbol (in lowercase for a lowercase ring
\* atom) followed by the atom's charge
GroupToString(g) ==
  <<IF g.isLowercase THEN ToLower(g.el) ELSE g.el>> \o ChargeClauses(g.charge)

\* group.ringDigits.map(n => '%' + n).join('')
RingDigitText(ds) == Flatten([i \in 1 .. Len(ds) |-> <<"%", DigitChar(ds[i])>>])

\* createGenerateSmilesStackItemObject
StackItem(group, parent, bond) ==
  [group |-> group, parent |-> parent, bond |-> bond, handled |-> FALSE,
   smiles |-> <<>>, smilesChildren |-> <<>>]

\* assembleSMILES with every non-empty child in parentheses
assembleEveryChild(item) ==
  LET kids == SelectSeq(item.smilesChildren, LAMBDA x : Len(x) > 0)
  IN  item.smiles
      \o Flatten([i \in 1 .. Len(kids) |-> <<"(">> \o kids[i] \o <<")">>])

\* assembleSMILES: every non-empty child but the last in parentheses
assembleSMILES(item) ==
  LET kids == SelectSeq(item.smilesChildren, LAMBDA x : Len(x) > 0)
  IN  IF kids = <<>> THEN item.smiles
      ELSE item.smiles
           \o Flatten([i \in 1 .. Len(kids) - 1 |-> <<"(">> \o kids[i] \o <<")">>])
           \o Last(kids)

\* the bond symbol written before an atom
BondText(bond, g) ==
  IF bond # "" /\ bond # "-"
  THEN (IF bond = ":" /\ g.isLowercase THEN <<>> ELSE <<bond>>)
  ELSE <<>>

\* the stack items pushed for the bonds of an atom, last bond first
RECURSIVE PushBonds(_, _, _, _)
PushBonds(st, bonds, done, parent) ==
  IF bonds = <<>> THEN st
  ELSE LET b == Last(bonds) IN
       PushBonds(IF b.dest \in done THEN st
                 ELSE Append(st, StackItem(b.dest, parent, b.bond)),
                 Pop(bonds), done, parent)

RECURSIVE generateLoop(_, _, _, _, _, _)
generateLoop(A, G, showImplicits, st, done, text) ==
  IF st = <<>> THEN [crashed |-> FALSE, text |-> text]
  ELSE
    LET i  == Len(st)
        it == st[i]
    IN
    IF it.handled
    THEN IF it.parent # 0
         THEN generateLoop(A, G, showImplicits,
                [Pop(st) EXCEPT ![it.parent].smilesChildren =
                                   Append(@, assembleSMILES(it))],
                done, text)
         ELSE generateLoop(A, G, showImplicits, Pop(st), done,
                           assembleSMILES(it) \o text)
    ELSE IF it.group \notin G
    THEN [crashed |-> TRUE, text |-> text]
    ELSE
      LET group == A[it.group] IN
      IF it.group \in done
      THEN generateLoop(A, G, showImplicits, [st EXCEPT ![i].handled = TRUE],
                        done, text)
      ELSE
        LET render == ~group.isImplicit \/ showImplicits
            txt    == IF render
                      THEN it.smiles \o BondText(it.bond, group)
                           \o GroupToString(group)
                           \o RingDigitText(group.ringDigits)
                      ELSE it.smiles
            st1    == [st EXCEPT ![i].smiles = txt, ![i].handled = TRUE]
        IN  generateLoop(A, G, showImplicits,
                         PushBonds(st1, getAllBonds(A, G, it.group), done, i),
                         done \cup {it.group}, text)

\* Molecule.generateSMILES
MoleculeGenerateSMILES(A, G, showImplicits) ==
  IF G = {} THEN [crashed |-> FALSE, text |-> <<>>]
  ELSE generateLoop(A, G, showImplicits,
                    <<StackItem(Keys(A, G)[1], 0, "")>>, {}, <<>>)

\* the separator written after molecule i (0-based), i not the last one
Separator(ri, i) ==
  LET js == {j \in DOMAIN ri : ri[j] = i} IN
  IF js = {} THEN <<".">>
  ELSE LET j == CHOOSE j \in js : \A k \in js : j <= k IN
       IF j + 1 \in DOMAIN ri /\ ri[j + 1] = i THEN <<">", ">">> ELSE <<">">>

\* ParsedSMILES.generateSMILES
RECURSIVE ParsedGenerateLoop(_, _, _, _, _)
ParsedGenerateLoop(A, mols, ri, i, showImplicits) ==
  IF i > Len(mols) THEN [crashed |-> FALSE, text |-> <<>>]
  ELSE
    LET m    == MoleculeGenerateSMILES(A, mols[i].groups, showImplicits)
        rest == ParsedGenerateLoop(A, mols, ri, i + 1, showImplicits)
    IN  IF m.crashed \/ rest.crashed THEN [crashed |-> TRUE, text |-> <<>>]
        ELSE [crashed |-> FALSE,
              text |-> m.text
                       \o (IF i < Len(mols) THEN Separator(ri, i - 1) ELSE <<>>)
                       \o rest.text]

ParsedGenerateSMILES(A, mols, ri, showImplicits) ==
  ParsedGenerateLoop(A, mols, ri, 1, showImplicits)

---------------------------------------------------------------------------
(* Molecule.countAtoms (groups kept intact, Hill system order) and         *)
(* Molecule.generateMolecularFormula.                                      *)

\* Group.getElementString of an atom of one element
getElementString(g) == g.el

\* the loop over this.groups: one entry per (atom string, charge) in order
\* of first occurrence, counting the atoms that have it
RECURSIVE tally(_, _, _, _)
tally(A, ks, ignoreCharge, acc) ==
  IF ks = <<>> THEN acc
  ELSE
    LET group       == A[Head(ks)]
        groupCharge == IF ignoreCharge THEN 0 ELSE group.charge
        str         == getElementString(group)
        hit         == {i \in DOMAIN acc :
                          acc[i].atom = str /\ acc[i].charge = groupCharge}
    IN  tally(A, Tail(ks), ignoreCharge,
              IF hit = {}
              THEN Append(acc, [atom |-> str, charge |-> groupCharge, count |-> 1])
              ELSE [acc EXCEPT ![CHOOSE i \in hit : TRUE].count = @ + 1])

\* the entries of one atom string, taken out from the back of the list
RECURSIVE ExtractReversed(_, _)
ExtractReversed(entries, atom) ==
  IF entries = <<>> THEN <<>>
  ELSE IF Last(entries).atom = atom
       THEN <<Last(entries)>> \o ExtractReversed(Pop(entries), atom)
       ELSE ExtractReversed(Pop(entries), atom)

\* the entries left in the order they were taken out
Unsorted(entries) == entries

\* sort((a, b) => a.charge - b.charge): ascending charge, equal charges in
\* their given order
RECURSIVE SortByCharge(_)
SortByCharge(entries) ==
  IF entries = <<>> THEN <<>>
  ELSE LET lo == CHOOSE i \in DOMAIN entries :
                   /\ \A j \in DOMAIN entries : entries[i].charge <= entries[j].charge
                   /\ \A j \in 1 .. i - 1 : entries[j].charge # entries[i].charge
       IN  <<entries[lo]>>
           \o SortByCharge(SubSeq(entries, 1, lo - 1)
                           \o SubSeq(entries, lo + 1, Len(entries)))

\* the order of the element symbols under elementKeys.sort()
AlphabetRank ==
  [e \in {"B", "C", "F", "H", "N", "O"} |->
     CASE e = "B" -> 1 [] e = "C" -> 2 [] e = "F" -> 3 [] e = "H" -> 4
       [] e = "N" -> 5 [] e = "O" -> 6]

\* the atom strings of a set in alphabetical order
RECURSIVE SortedKeys(_)
SortedKeys(keys) ==
  IF keys = {} THEN <<>>
  ELSE LET k == CHOOSE k \in keys :
                  \A j \in keys : AlphabetRank[k] <= AlphabetRank[j]
       IN  <<k>> \o SortedKeys(keys \ {k})

\* opts.hillSystemOrder: carbons, hydrogens, then the rest by atom string,
\* each by charge
hillSystemOrder(entries) ==
  LET rest == SelectSeq(entries, LAMBDA e : e.atom # "C" /\ e.atom # "H")
      keys == SortedKeys({rest[i].atom : i \in DOMAIN rest})
  IN  SortByCharge(ExtractReversed(entries, "C"))
      \o SortByCharge(ExtractReversed(entries, "H"))
      \o Flatten([k \in DOMAIN keys |->
                    SortByCharge(SelectSeq(rest, LAMBDA e : e.atom = keys[k]))])

\* Molecule.countAtoms({ splitGroups: false, hillSystemOrder: true, ignoreCharge })
countAtoms(A, G, ignoreCharge) ==
  hillSystemOrder(tally(A, Keys(A, G), ignoreCharge, <<>>))

\* a number in decimal digits
RECURSIVE NumText(_)
NumText(n) ==
  IF n < 10 THEN <<DigitChar(n)>> ELSE NumText(n \div 10) \o <<DigitChar(n % 10)>>

\* assembleMolecularFormula: every atom string followed by its count, a
\* count of one left out
assembleMolecularFormula(entries) ==
  Flatten([i \in DOMAIN entries |->
             <<entries[i].atom>>
             \o (IF entries[i].count = 1 THEN <<>> ELSE NumText(entries[i].count))])

\* Molecule.generateMolecularFormula
generateMolecularFormula(A, G) == assembleMolecularFormula(countAtoms(A, G, TRUE))

---------------------------------------------------------------------------
(* Molecule.generateCondensedFormula(false, true).  A unit is the list of *)
(* the atoms whose strings are put into one Map of the array elements:    *)
(* the atom of the stack first, then the atoms collapsed into it.  NaN on *)
(* the stack is 0.                                                        *)

\* Group.toStringFancy(false, false)
toStringFancy(g) == g.el

\* the neighbour has no bond in its own list
NoOwnBonds(A, G, dest) == A[dest].bonds = <<>>

\* "this.groups[bond.dest].bonds.length === 0"
IsCollapsed(A, G, dest) == NoOwnBonds(A, G, dest)

\* for (let j = bonds.length - 1; j >= 0; j--): the unit, the done set and
\* the stack after the bonds j, j - 1, ..., 1
RECURSIVE collapseLoop(_, _, _, _, _)
collapseLoop(A, G, bonds, j, acc) ==
  IF j = 0 \/ acc.crashed THEN acc
  ELSE LET dest == bonds[j].dest IN
       IF dest \in acc.done
       THEN collapseLoop(A, G, bonds, j - 1,
                         [acc EXCEPT !.st = Append(@, dest)])
       ELSE IF dest \notin G
       THEN [acc EXCEPT !.crashed = TRUE]
       ELSE IF IsCollapsed(A, G, dest)
       THEN collapseLoop(A, G, bonds, j - 1,
                         [acc EXCEPT !.unit = Append(@, dest),
                                     !.done = @ \cup {dest},
                                     !.st = Append(@, dest)])
       ELSE collapseLoop(A, G, bonds, j - 1,
                         [acc EXCEPT !.st = Append(@, dest)])

\* while (stack.length !== 0)
RECURSIVE condensedLoop(_, _, _, _, _)
condensedLoop(A, G, st, done, elements) ==
  IF st = <<>> THEN [crashed |-> FALSE, elements |-> elements]
  ELSE LET i == Len(st) IN
       IF st[i] = 0 THEN condensedLoop(A, G, Pop(st), done, elements)
       ELSE IF st[i] \notin G THEN [crashed |-> TRUE, elements |-> elements]
       ELSE IF st[i] \in done THEN condensedLoop(A, G, Pop(st), done, elements)
       ELSE LET bonds == getAllBonds(A, G, st[i])
                acc   == collapseLoop(A, G, bonds, Len(bonds),
                                      [crashed |-> FALSE, unit |-> <<st[i]>>,
                                       done |-> done, st |-> st])
            IN  IF acc.crashed THEN [crashed |-> TRUE, elements |-> elements]
                ELSE condensedLoop(A, G, [acc.st EXCEPT ![i] = 0],
                                   acc.done \cup {st[i]},
                                   Append(elements, acc.unit))

\* groupElements: the strings of a unit with their counts, in the order in
\* which they were first set
RECURSIVE groupElements(_, _, _)
groupElements(A, unit, map) ==
  IF unit = <<>> THEN map
  ELSE LET el  == toStringFancy(A[Head(unit)])
           hit == {k \in DOMAIN map : map[k].el = el}
       IN  groupElements(A, Tail(unit),
             IF hit = {} THEN Append(map, [el |-> el, count |-> 1])
             ELSE [map EXCEPT ![CHOOSE k \in hit : TRUE].count = @ + 1])

\* segStr: a count of one is left out; an entry that is neither the first
\* nor the last and has a count above one is put in parentheses
segStr(map) ==
  Flatten([k \in DOMAIN map |->
     LET str == IF map[k].count = 1 THEN <<map[k].el>>
                ELSE <<map[k].el>> \o NumText(map[k].count)
     IN  IF k > 1 /\ k < Len(map) /\ map[k].count > 1
         THEN <<"(">> \o str \o <<")">> ELSE str])

\* a segment written segCount times
Repeated(segment, segCount) ==
  IF segCount = 1 THEN segment
  ELSE <<"(">> \o segment \o <<")">> \o NumText(segCount)

\* collapseSucecssiveGroups: equal successive segments are written once
\* with their number
RECURSIVE collapseSegments(_, _, _, _)
collapseSegments(segs, string, lastSegment, segCount) ==
  IF segs = <<>>
  THEN IF segCount # 0 THEN string \o Repeated(lastSegment, segCount) ELSE string
  ELSE IF segCount = 0
       THEN collapseSegments(Tail(segs), string, Head(segs), 1)
  ELSE IF Head(segs) = lastSegment
       THEN collapseSegments(Tail(segs), string, lastSegment, segCount + 1)
  ELSE collapseSegments(Tail(segs), string \o Repeated(lastSegment, segCount),
                        Head(segs), 1)

\* Molecule.generateCondensedFormula(): the units and the string made of them
generateCondensedFormula(A, G) ==
  IF G = {} THEN [crashed |-> FALSE, elements |-> <<>>, string |-> <<>>]
  ELSE LET loop == condensedLoop(A, G, <<Keys(A, G)[1]>>, {}, <<>>)
           segs == [k \in DOMAIN loop.elements |->
                      segStr(groupElements(A, loop.elements[k], <<>>))]
       IN  [crashed |-> loop.crashed, elements |-> loop.elements,
            string |-> IF loop.crashed THEN <<>>
                       ELSE collapseSegments(segs, <<>>, <<>>, 0)]

---------------------------------------------------------------------------
(* Molecule.calculateMr, Molecule.severBond, Molecule.removeUnbondedGroups. *)

\* the relative atomic masses, rounded to whole numbers
atomicMass ==
  [e \in DOMAIN organicSubset \cup {"H"} |->
     CASE e = "H" -> 1 [] e = "B" -> 11 [] e = "C" -> 12 [] e = "N" -> 14
       [] e = "O" -> 16 [] e = "F" -> 19]

\* Group.calculateMr
GroupCalculateMr(g) == atomicMass[g.el]

\* the destinations of the bonds stored on an atom
Dests(bonds) == [k \in DOMAIN bonds |-> bonds[k].dest]

\* while (stack.length !== 0) of calculateMr: "group.bonds.forEach(bond =>
\* stack.push(bond.dest))"
RECURSIVE calculateMrLoop(_, _, _, _, _)
calculateMrLoop(A, G, st, done, Mr) ==
  IF st = <<>> THEN [crashed |-> FALSE, Mr |-> Mr]
  ELSE LET id == Last(st) IN
       IF id \in done THEN calculateMrLoop(A, G, Pop(st), done, Mr)
       ELSE IF id \notin G THEN [crashed |-> TRUE, Mr |-> Mr]
       ELSE calculateMrLoop(A, G, Pop(st) \o Dests(A[id].bonds),
                            done \cup {id}, Mr + GroupCalculateMr(A[id]))

\* Molecule.calculateMr
calculateMr(A, G) ==
  IF G = {} THEN [crashed |-> FALSE, Mr |-> 0]
  ELSE calculateMrLoop(A, G, <<Keys(A, G)[1]>>, {}, 0)

\* bonds.findIndex(b => b.dest === id), counted from 1; 0 for -1
findIndex(bonds, id) ==
  LET hits == {k \in DOMAIN bonds : bonds[k].dest = id}
  IN  IF hits = {} THEN 0 ELSE CHOOSE k \in hits : \A h \in hits : k <= h

\* Molecule.severBond: the atoms after the call and the value returned
severBond(A, id1, id2) ==
  LET i == findIndex(A[id1].bonds, id2)
      j == findIndex(A[id2].bonds, id1)
  IN  IF i # 0
      THEN [atoms |-> [A EXCEPT ![id1].bonds = SpliceOut(@, i - 1)],
            result |-> TRUE]
      ELSE IF j # 0
      THEN [atoms |-> [A EXCEPT ![id2].bonds = SpliceOut(@, j - 1)],
            result |-> TRUE]
      ELSE [atoms |-> A, result |-> FALSE]

\* the bonds stored on the atom itself
StoredBonds(A, G, gid) == A[gid].bonds

\* "const bonds = this.getAllBonds(gid)"
ExploredBonds(A, G, gid) == getAllBonds(A, G, gid)

\* for (let i = bonds.length - 1; i >= 0; --i): the destinations that are
\* not done, last bond first
RECURSIVE NotDone(_, _)
NotDone(bonds, done) ==
  IF bonds = <<>> THEN <<>>
  ELSE (IF Last(bonds).dest \in done THEN <<>> ELSE <<Last(bonds).dest>>)
       \o NotDone(Pop(bonds), done)

\* while (stack.length !== 0) of removeUnbondedGroups
RECURSIVE bondedLoop(_, _, _, _, _)
bondedLoop(A, G, st, done, bondedGroups) ==
  IF st = <<>> THEN [crashed |-> FALSE, bondedGroups |-> bondedGroups]
  ELSE LET gid == Last(st) IN
       IF gid \in done THEN bondedLoop(A, G, Pop(st), done, bondedGroups)
       ELSE IF gid \notin G THEN [crashed |-> TRUE, bondedGroups |-> bondedGroups]
       ELSE LET more == NotDone(ExploredBonds(A, G, gid), done \cup {gid})
            IN  bondedLoop(A, G, Pop(st) \o more, done \cup {gid},
                           bondedGroups \cup Range(more))

\* Molecule.removeUnbondedGroups: the groups left in the molecule and the
\* groups returned
removeUnbondedGroups(A, G, startID) ==
  LET loop == bondedLoop(A, G, <<startID>>, {}, {startID})
  IN  [crashed |-> loop.crashed,
       groups |-> IF loop.crashed THEN G ELSE G \cap loop.bondedGroups,
       discarded |-> IF loop.crashed THEN {} ELSE G \ loop.bondedGroups]

---------------------------------------------------------------------------
(* SMILES._parse: the activation records and the lexical recognizers.      *)

\* the locals of one activation of _parse(ps, smiles, groups, parent,
\* chainDepth, indexOffset); the text is smiles[off+1 .. off+len].
\* parent = 0, currentBond = "" and currentBondPos = -1 stand for undefined.
\* afterBond: the explicit-bond block of this loop iteration has run.
Frame(off, len, parent, chainDepth) ==
  [off |-> off, len |-> len, pos |-> 0, groups |-> <<>>, parent |-> parent,
   chainDepth |-> chainDepth, currentBond |-> "", currentBondPos |-> -1,
   dontBondNext |-> FALSE, afterBond |-> FALSE]

Top == stack[Len(stack)]

SetTop(f) == [stack EXCEPT ![Len(stack)] = f]

\* smiles[p] of the activation f
Ch(f, p) == smiles[f.off + p + 1]

Cur == Ch(Top, Top.pos)

\* an error: its kind, its message, its column number and the value the
\* message names (a ring digit), -1 when it names none
NoError == [kind |-> "", msg |-> "", col |-> 0, arg |-> -1]

RECURSIVE SumOffsets(_, _)
SumOffsets(st, i) == IF i = 0 THEN 0 ELSE st[i].off + SumOffsets(st, i - 1)

\* SMILES._tryParse: every enclosing level adds its indexOffset to the
\* column number of an error that passes through it
ColumnNumber(local) == local + SumOffsets(stack, Len(stack))

FailWith(kind, msg, col, arg) ==
  /\ pc' = "error"
  /\ err' = [kind |-> kind, msg |-> msg, col |-> col, arg |-> arg]
  /\ UNCHANGED <<smiles, opts, stack, atoms, molecules, rings, openRings,
                 reactionIndexes, groupMap, run, first,
                 molRefs, returned>>

Fail(kind, msg, col) == FailWith(kind, msg, col, -1)

\* a failure that is no AdvError (a TypeError of the runtime)
Crash(msg) ==
  /\ pc' = "crash"
  /\ err' = [kind |-> "TypeError", msg |-> msg, col |-> -1, arg |-> -1]
  /\ UNCHANGED <<smiles, opts, stack, atoms, molecules, rings, openRings,
                 reactionIndexes, groupMap, run, first,
                 molRefs, returned>>

ParseFail(kind, msg, local) == Fail(kind, msg, ColumnNumber(local))

\* extractBetweenMatching: the position of the delimiter closing the one at
\* pos, or -1 when the text ends first
RECURSIVE MatchClose(_, _, _, _, _)
MatchClose(f, open, close, p, depth) ==
  IF p >= f.len THEN -1
  ELSE IF Ch(f, p) = close
       THEN (IF depth = 1 THEN p ELSE MatchClose(f, open, close, p + 1, depth - 1))
  ELSE IF Ch(f, p) = open THEN MatchClose(f, open, close, p + 1, depth + 1)
  ELSE MatchClose(f, open, close, p + 1, depth)

extractBetweenMatching(f, open, close, pos) == MatchClose(f, open, close, pos + 1, 1)

\* the length of the run of digit characters starting at p
RECURSIVE DigitRun(_, _)
DigitRun(f, p) ==
  IF p < f.len /\ isDigitChar(Ch(f, p)) THEN 1 + DigitRun(f, p + 1) ELSE 0

RECURSIVE DigitRunValue(_, _, _, _)
DigitRunValue(f, p, n, acc) ==
  IF n = 0 THEN acc
  ELSE DigitRunValue(f, p + 1, n - 1, 10 * acc + DigitValue(Ch(f, p)))

\* parseDigitString: a digit is one ring number; '%' is followed by the
\* digits of one ring number.  Yields [digits, endIndex, bad].
RECURSIVE parseDigitString(_, _)
parseDigitString(f, p) ==
  IF p >= f.len THEN [digits |-> <<>>, endIndex |-> 0, bad |-> FALSE]
  ELSE IF isDigitChar(Ch(f, p))
  THEN LET rest == parseDigitString(f, p + 1) IN
       [digits |-> <<DigitValue(Ch(f, p))>> \o rest.digits,
        endIndex |-> 1 + rest.endIndex, bad |-> rest.bad]
  ELSE IF Ch(f, p) = "%"
  THEN LET n    == DigitRun(f, p + 1)
           rest == parseDigitString(f, p + 1 + n)
       IN  [digits |-> (IF n = 0 THEN <<>>
                        ELSE <<DigitRunValue(f, p + 1, n, 0)>>) \o rest.digits,
            endIndex |-> 1 + n + rest.endIndex,
            bad |-> (n = 0) \/ rest.bad]
  ELSE [digits |-> <<>>, endIndex |-> 0, bad |-> FALSE]

\* extractDuplicates(digits) is not empty
HasDuplicates(ds) == \E i, j \in DOMAIN ds : i < j /\ ds[i] = ds[j]

\* parseChargeString on the text between the braces: 0 stands for NaN
parseChargeString(f, from, n) ==
  IF n = 1 /\ Ch(f, from) = "+" THEN 1
  ELSE IF n = 1 /\ Ch(f, from) = "-" THEN -1
  ELSE 0

---------------------------------------------------------------------------
(* SMILES._parse: the branch conditions of one loop iteration.             *)

Parsing == pc = "parse" /\ stack # <<>> /\ Top.pos < Top.len

SeparatorCond ==
  opts.enableSeperatedStructures /\ Cur = "." /\ Top.chainDepth = 0

\* the arrow-count limit of the reaction block
ReactionAllowed ==
  opts.enableMultipleReactions \/ Len(reactionIndexes) < 2

ReactionCond ==
  /\ Cur = ">" /\ Top.chainDepth = 0 /\ Len(Top.groups) > 0
  /\ opts.enableSeperatedStructures /\ opts.enableReaction
  /\ ReactionAllowed

BondCond == isBondChar(Cur) /\ (Cur = ":" => opts.enableAromaticity)

\* the blocks after the explicit-bond block are entered either right after
\* it or when none of the first three blocks applies
Dispatching ==
  /\ Parsing
  /\ Top.afterBond \/ ~(SeparatorCond \/ ReactionCond \/ BondCond)

ChargeCond == Cur = "{" /\ Len(Top.groups) > 0 /\ opts.enableChargeClauses

InorganicCond == Cur = "[" /\ opts.enableInorganicAtoms

ChainCond == Cur = "(" /\ opts.enableChains

DigitCond == (isDigitChar(Cur) \/ Cur = "%") /\ opts.enableRings

---------------------------------------------------------------------------
(* SMILES._parse: one action per block of the loop.                        *)

\* new Molecule(): an object that is none of those in the list
NewRef(refs) == CHOOSE n \in 1 .. Len(refs) + 1 :
                  n \notin Range(refs) /\ \A k \in 1 .. n - 1 : k \in Range(refs)

\* '.': a new molecule; the next atom is not bonded to the previous one
DisconnectedStructure ==
  /\ Parsing /\ ~Top.afterBond /\ SeparatorCond
  /\ IF Top.dontBondNext
     THEN ParseFail("Syntax", "expected SMILES, got seperator", Top.pos)
     ELSE /\ stack' = SetTop([Top EXCEPT !.dontBondNext = TRUE, !.pos = @ + 1])
          /\ molecules' = Append(molecules, [groups |-> {}, rings |-> <<>>])
          /\ molRefs' = Append(molRefs, NewRef(molRefs))
          /\ UNCHANGED <<smiles, opts, pc, atoms, rings, openRings,
                         reactionIndexes, groupMap, err, run, first,
                         returned>>

\* the index recorded for a '>' without the step back over an empty molecule
ReactionPtrLast(mols) == Len(mols) - 1

\* the index recorded for a '>': the last molecule, or the one before it
\* when the last molecule is still empty
ReactionPtr(mols) ==
  IF mols[Len(mols)].groups # {} THEN Len(mols) - 1 ELSE Len(mols) - 2

\* '>': a reaction boundary
Reaction ==
  /\ Parsing /\ ~Top.afterBond /\ ~SeparatorCond /\ ReactionCond
  /\ stack' = SetTop([Top EXCEPT !.dontBondNext = TRUE, !.pos = @ + 1])
  /\ molecules' = IF Last(molecules).groups # {}
                  THEN Append(molecules, [groups |-> {}, rings |-> <<>>])
                  ELSE molecules
  /\ molRefs' = IF Last(molecules).groups # {}
                THEN Append(molRefs, NewRef(molRefs))
                ELSE molRefs
  /\ reactionIndexes' = Append(reactionIndexes, ReactionPtr(molecules))
  /\ UNCHANGED <<smiles, opts, pc, atoms, rings, openRings, groupMap, err,
                 run, first, returned>>

\* a bond symbol: it becomes the pending bond; ':' marks every open ring
\* aromatic
ExplicitBond ==
  /\ Parsing /\ ~Top.afterBond /\ ~SeparatorCond /\ ~ReactionCond /\ BondCond
  /\ LET f    == Top
         bond == Cur
         open == Range(openRings)
     IN
     IF f.pos + 1 >= f.len
     THEN ParseFail("Syntax", "unexpected end-of-input after bond", f.pos)
     ELSE IF bond = ":" /\ open = {}
     THEN ParseFail("Bond", "aromatic bond only valid in rings", f.pos)
     ELSE IF bond = ":" /\ \E r \in open : rings[r].isAromatic = "false"
     THEN ParseFail("Bond", "aromatic bond only valid in aromatic rings", f.pos)
     ELSE /\ stack' = SetTop([f EXCEPT !.currentBond = bond,
                                       !.currentBondPos = f.pos,
                                       !.pos = @ + 1, !.afterBond = TRUE])
          /\ rings' = IF bond = ":"
                      THEN [r \in DOMAIN rings |->
                              IF r \in open
                              THEN [rings[r] EXCEPT !.isAromatic = "true"]
                              ELSE rings[r]]
                      ELSE rings
          /\ UNCHANGED <<smiles, opts, pc, atoms, molecules, openRings,
                         reactionIndexes, groupMap, err, run, first,
                         molRefs, returned>>

\* the charge block with its test for a second clause or a radical left out
ChargeRefusedNever(group, cumulativeCharge) == FALSE

\* "Invalid: cumulative charge, radical"
ChargeRefused(group, cumulativeCharge) ==
  (group.charge # 0 /\ ~cumulativeCharge) \/ group.isRadical

\* "{...}": a charge on the last atom of this chain
Charge ==
  /\ Dispatching /\ ChargeCond
  /\ LET f     == Top
         close == extractBetweenMatching(f, "{", "}", f.pos)
         n     == close - f.pos - 1
         gid   == Last(f.groups)
         c     == parseChargeString(f, f.pos + 1, n)
     IN
     IF close = -1
     THEN ParseFail("Syntax", "unmatched closing brace", f.pos)
     ELSE IF ChargeRefused(atoms[gid], opts.cumulativeCharge)
     THEN ParseFail("Syntax", "unexpected charge clause", f.pos)
     ELSE IF c = 0
     THEN ParseFail("Syntax", "invalid charge string", f.pos + 1)
     ELSE /\ atoms' = [atoms EXCEPT ![gid].charge = @ + c,
                                    ![gid].smilesStringLength = @ + n + 2]
          /\ stack' = SetTop([f EXCEPT !.pos = @ + n + 2, !.afterBond = FALSE])
          /\ UNCHANGED <<smiles, opts, pc, molecules, rings, openRings,
                         reactionIndexes, groupMap, err, run, first,
                         molRefs, returned>>

\* "(...)": _tryParse of the text between the parentheses, one level deeper,
\* with the last atom of this chain as parent
Chain ==
  /\ Dispatching /\ ~ChargeCond /\ ~InorganicCond /\ ChainCond
  /\ LET f     == Top
         close == extractBetweenMatching(f, "(", ")", f.pos)
         n     == close - f.pos - 1
     IN
     IF close = -1
     THEN ParseFail("Syntax", "unmatched closing parenthesis", f.pos)
     ELSE IF n = 0
     THEN ParseFail("Syntax", "empty chain", f.pos)
     ELSE IF f.groups = <<>>
     THEN ParseFail("Syntax", "unexpected SMILES chain (no parent)", f.pos)
     ELSE /\ stack' = Append(SetTop([f EXCEPT !.afterBond = FALSE]),
                             Frame(f.off + f.pos + 1, n, Last(f.groups),
                                   f.chainDepth + 1))
          /\ UNCHANGED <<smiles, opts, pc, atoms, molecules, rings, openRings,
                         reactionIndexes, groupMap, err, run, first,
                         molRefs, returned>>

\* the end of a nested _parse: its atoms are registered and the enclosing
\* activation steps over "(...)"
ChainReturn ==
  /\ pc = "parse" /\ Len(stack) > 1 /\ Top.pos >= Top.len
  /\ groupMap' = groupMap \cup Range(Top.groups)
  /\ stack' = [Pop(stack) EXCEPT ![Len(stack) - 1].pos = @ + Top.len + 2]
  /\ UNCHANGED <<smiles, opts, pc, atoms, molecules, rings, openRings,
                 reactionIndexes, err, run, first,
                 molRefs, returned>>

\* obj.digits.forEach: a digit with no open ring opens one on the atom (and
\* registers it with the last molecule), a digit with an open ring closes it
RECURSIVE ApplyDigits(_, _, _)
ApplyDigits(ds, gid, st) ==
  IF ds = <<>> THEN st
  ELSE
    LET d == Head(ds) IN
    IF d \notin DOMAIN st.openRings
    THEN LET ring == [digit |-> d, start |-> gid, end |-> 0,
                      isAromatic |-> IF atoms[gid].isLowercase THEN "true"
                                     ELSE "undefined",
                      members |-> <<gid>>]
             idx  == Len(st.rings) + 1
         IN  ApplyDigits(Tail(ds), gid,
               [rings |-> Append(st.rings, ring),
                openRings |-> (d :> idx) @@ st.openRings,
                molRings |-> Append(st.molRings, idx)])
    ELSE ApplyDigits(Tail(ds), gid,
           [rings |-> [st.rings EXCEPT ![st.openRings[d]].end = gid],
            openRings |-> [x \in DOMAIN st.openRings \ {d} |-> st.openRings[x]],
            molRings |-> st.molRings])

\* ring-closure digits on the last atom of this chain
RingDigits ==
  /\ Dispatching /\ ~ChargeCond /\ ~InorganicCond /\ ~ChainCond /\ DigitCond
  /\ LET f   == Top
         obj == parseDigitString(f, f.pos)
     IN
     IF f.groups = <<>>
     THEN ParseFail("Syntax", "unexpected ring digit", f.pos)
     ELSE IF obj.digits = <<>> \/ obj.bad
     THEN ParseFail("Syntax", "invalid syntax", f.pos)
     ELSE IF HasDuplicates(obj.digits)
     THEN ParseFail("Syntax", "duplicate ring endings found", f.pos)
     ELSE
       LET gid == Last(f.groups)
           st  == ApplyDigits(obj.digits, gid,
                              [rings |-> rings, openRings |-> openRings,
                               molRings |-> Last(molecules).rings])
       IN
       /\ atoms' = [atoms EXCEPT ![gid].ringDigits = @ \o obj.digits]
       /\ rings' = st.rings
       /\ openRings' = st.openRings
       /\ molecules' = [molecules EXCEPT ![Len(molecules)].rings = st.molRings]
       /\ stack' = SetTop([f EXCEPT !.pos = @ + obj.endIndex,
                                    !.afterBond = FALSE])
       /\ UNCHANGED <<smiles, opts, pc, reactionIndexes, groupMap, err, run,
                      first,
                      molRefs, returned>>

\* the bond type used between an atom and its predecessor: the pending
\* bond, or the implicit single bond
BondToUse(currentBond) == IF currentBond # "" THEN currentBond ELSE "-"

\* the bonding block, run with the new atom already in groups; pos is the
\* position after the atom.  Yields [kind, msg, col, atoms, currentBond,
\* dontBondNext], kind = "" when no error is raised.
Bonding(A, f, groups, pos) ==
  LET ok(A1, cb, dbn) == [kind |-> "", msg |-> "", col |-> 0, atoms |-> A1,
                          currentBond |-> cb, dontBondNext |-> dbn]
      no(kind, msg, col) == [kind |-> kind, msg |-> msg, col |-> col,
                             atoms |-> A, currentBond |-> f.currentBond,
                             dontBondNext |-> f.dontBondNext]
      one == groups[Len(groups)]
      two == groups[Len(groups) - 1]
      errcol == IF f.currentBond # "" THEN f.currentBondPos ELSE pos
  IN
  IF f.dontBondNext
  THEN IF f.currentBond # ""
       THEN no("Bond", "bond between seperated structures", f.currentBondPos)
       ELSE ok(A, f.currentBond, FALSE)
  ELSE IF Len(groups) >= 2
  THEN IF addBondOk(A, two, one)
       THEN ok(addBond(A, two, BondToUse(f.currentBond), one), "", FALSE)
       ELSE no("Bond", "bond between this and last atom", errcol)
  ELSE IF Len(groups) = 1 /\ f.parent # 0
  THEN IF addBondOk(A, f.parent, one)
       THEN ok(addBond(A, f.parent, BondToUse(f.currentBond), one), "", FALSE)
       ELSE no("Bond", "bond between this and chain parent", errcol)
  ELSE IF f.currentBond # ""
  THEN no("Syntax", "unexpected bond", f.currentBondPos)
  ELSE ok(A, "", FALSE)

\* every open ring gets the new atom as a provisional member
AddToOpenRings(R, open, gid) ==
  [r \in DOMAIN R |->
     IF r \in open
     THEN [R[r] EXCEPT !.isAromatic = IF @ = "undefined" THEN "false" ELSE @,
                       !.members = Append(@, gid)]
     ELSE R[r]]

\* a bare atom of the organic subset, or a lowercase ring atom
OrganicAtom ==
  /\ Dispatching /\ ~ChargeCond /\ ~InorganicCond /\ ~ChainCond /\ ~DigitCond
  /\ LET f         == Top
         extracted == extractElement(Cur)
         gid       == Len(atoms) + 1
         group     == NewGroup(ToUpper(extracted),
                               extracted \in lowercaseRingAtoms, FALSE,
                               f.chainDepth, f.off + f.pos)
         groups    == Append(f.groups, gid)
         b         == Bonding(Append(atoms, group), f, groups, f.pos + 1)
     IN
     IF extracted = ""
     THEN ParseFail("Syntax", "expected atom", f.pos)
     ELSE IF b.kind # ""
     THEN ParseFail(b.kind, b.msg, b.col)
     ELSE /\ atoms' = b.atoms
          /\ molecules' = [molecules EXCEPT ![Len(molecules)].groups =
                                               @ \cup {gid}]
          /\ rings' = AddToOpenRings(rings, Range(openRings), gid)
          /\ stack' = SetTop([f EXCEPT !.pos = @ + 1, !.groups = groups,
                                       !.currentBond = b.currentBond,
                                       !.dontBondNext = b.dontBondNext,
                                       !.afterBond = FALSE])
          /\ UNCHANGED <<smiles, opts, pc, openRings, reactionIndexes,
                         groupMap, err, run, first,
                         molRefs, returned>>

\* the end of the outermost _parse: its atoms are registered and
\* SMILES.parse goes on to its validation pass
ParseReturn ==
  /\ pc = "parse" /\ Len(stack) = 1 /\ Top.pos >= Top.len
  /\ groupMap' = groupMap \cup Range(Top.groups)
  /\ pc' = "checkReaction"
  /\ stack' = <<>>
  /\ UNCHANGED <<smiles, opts, atoms, molecules, rings, openRings,
                 reactionIndexes, err, run, first,
                 molRefs, returned>>

---------------------------------------------------------------------------
(* SMILES.parse: the validation pass, one action per block.                *)

\* the parity check switched off
NeverIncomplete(ri) == FALSE

\* "Incomplete reaction?"
IncompleteReaction(ri) == Len(ri) % 2 = 1

CheckReaction ==
  /\ pc = "checkReaction"
  /\ IF IncompleteReaction(reactionIndexes)
     THEN Fail("Syntax", "> expected (incomplete reaction)", Len(smiles) - 1)
     ELSE /\ pc' = "checkBridging"
          /\ UNCHANGED <<smiles, opts, stack, atoms, molecules, rings,
                         openRings, reactionIndexes, groupMap, err, run, first,
                         molRefs, returned>>

\* ps.molecules.forEach(mol => mol.rings.forEach(ring => ...)), in order
MolRingPairs(mols) ==
  Flatten([m \in 1 .. Len(mols) |->
             [k \in 1 .. Len(mols[m].rings) |->
                [mol |-> m, ring |-> mols[m].rings[k]]]])

\* a member of the ring is no atom of the molecule
Bridges(mols, R, p) == \E n \in Range(R[p.ring].members) : n \notin mols[p.mol].groups

\* "Check that rings do not cross structures"
CheckBridging ==
  /\ pc = "checkBridging"
  /\ LET ps  == MolRingPairs(molecules)
         bad == {i \in DOMAIN ps : Bridges(molecules, rings, ps[i])}
     IN
     IF bad = {}
     THEN /\ pc' = "closeRings"
          /\ UNCHANGED <<smiles, opts, stack, atoms, molecules, rings,
                         openRings, reactionIndexes, groupMap, err, run, first,
                         molRefs, returned>>
     ELSE LET p     == ps[CHOOSE i \in bad : \A j \in bad : i <= j]
              start == rings[p.ring].members[1]
          IN  IF start \notin molecules[p.mol].groups
              THEN Crash("start of bridging ring is undefined")
              ELSE Fail("Ring", "ring structure cannot bridge molecules",
                        atoms[start].smilesStringPosition)

\* every ring closed with an aromatic bond
ClosingBondAromatic(ring) == ":"

\* the type of the bond that closes a ring
ClosingBond(ring) == IF ring.isAromatic = "true" THEN ":" ELSE "-"

\* "Check for open rings"
RingUnclosed(ring) == ring.end = 0

RECURSIVE CloseLoop(_, _, _)
CloseLoop(A, R, i) ==
  IF i > Len(R) THEN A
  ELSE CloseLoop(addBond(A, R[i].start, ClosingBond(R[i]), R[i].end), R, i + 1)

\* the loop over ps.rings reporting the last ring left open
LastUnclosed(R) ==
  LET open == {i \in DOMAIN R : RingUnclosed(R[i])}
  IN  IF open = {} THEN 0 ELSE CHOOSE i \in open : \A j \in open : i >= j

\* for (const ring of ps.rings): the first ring found unclosed, 0 when none
FirstUnclosed(R) ==
  LET open == {i \in DOMAIN R : RingUnclosed(R[i])}
  IN  IF open = {} THEN 0 ELSE CHOOSE i \in open : \A j \in open : i <= j

\* "Check for open rings" and "Close ring with bonds"
CloseRings ==
  /\ pc = "closeRings"
  /\ IF FirstUnclosed(rings) # 0
     THEN LET r == rings[FirstUnclosed(rings)] IN
          FailWith("Ring", "unclosed ring", atoms[r.start].smilesStringPosition,
                   r.digit)
     ELSE /\ atoms' = CloseLoop(atoms, rings, 1)
          /\ pc' = "resolveRings"
          /\ UNCHANGED <<smiles, opts, stack, molecules, rings, openRings,
                         reactionIndexes, groupMap, err, run, first,
                         molRefs, returned>>

\* the resolved members of a ring: the trace of the first longest path
ResolvedMembers(A, G, ring, paths) ==
  traceBondPath(A, G, ring.start, LongestPath(paths))

\* the members after the first whose case differs from the first member's
CaseOffenders(A, members) ==
  {i \in 2 .. Len(members) : A[members[i]].isLowercase # A[members[1]].isLowercase}

\* the bonds of a lowercase ring left as they were written
CoerceNothing(A, members, i) == A

\* "Change all to aromatic bonds": the record is looked up on a, then on b
RECURSIVE CoerceAromatic(_, _, _)
CoerceAromatic(A, members, i) ==
  IF i >= Len(members) THEN A
  ELSE
    LET a  == members[i]
        b  == members[i + 1]
        ia == {k \in DOMAIN A[a].bonds : A[a].bonds[k].dest = b}
        ib == {k \in DOMAIN A[b].bonds : A[b].bonds[k].dest = a}
        lo(S) == CHOOSE k \in S : \A j \in S : k <= j
    IN  IF ia # {}
        THEN CoerceAromatic([A EXCEPT ![a].bonds[lo(ia)].bond = ":"], members, i + 1)
        ELSE IF ib # {}
        THEN CoerceAromatic([A EXCEPT ![b].bonds[lo(ib)].bond = ":"], members, i + 1)
        ELSE CoerceAromatic(A, members, i + 1)

\* "Check all aromatic bonds": the positions i whose bond to i+1 is not ':'
NonAromaticSteps(A, G, members) ==
  {i \in 1 .. Len(members) - 1 :
     LET bs == SelectSeq(getAllBonds(A, G, members[i]),
                         LAMBDA b : b.dest = members[i + 1])
     IN  bs = <<>> \/ bs[1].bond # ":"}

\* the loop over the rings of every molecule; yields [kind, msg, col, A, R]
RECURSIVE ResolveLoop(_, _, _, _)
ResolveLoop(A, R, mols, ps) ==
  IF ps = <<>> THEN [kind |-> "", msg |-> "", col |-> 0, atoms |-> A, rings |-> R]
  ELSE
    LET p    == Head(ps)
        G    == mols[p.mol].groups
        ring == R[p.ring]
        pf   == pathfind(A, G, ring.start, ring.end, Range(ring.members))
        stop(kind, msg, col) ==
          [kind |-> kind, msg |-> msg, col |-> col, atoms |-> A, rings |-> R]
    IN
    IF pf.crashed \/ pf.paths = <<>>
    THEN stop("TypeError", "no path from ring start to ring end", -1)
    ELSE
      LET members == ResolvedMembers(A, G, ring, pf.paths)
          R1      == [R EXCEPT ![p.ring].members = members]
          lower   == A[members[1]].isLowercase
          odd     == CaseOffenders(A, members)
          firstOdd == members[CHOOSE i \in odd : \A j \in odd : i <= j]
          steps   == NonAromaticSteps(A, G, members)
          firstStep == CHOOSE i \in steps : \A j \in steps : i <= j
      IN
      IF odd # {}
      THEN stop("Syntax",
                IF lower THEN "expected lowercase ring atom"
                ELSE "unexpected lowercase atom in ring",
                A[firstOdd].smilesStringPosition)
      ELSE IF ring.isAromatic = "true" /\ lower
      THEN ResolveLoop(CoerceAromatic(A, members, 1), R1, mols, Tail(ps))
      ELSE IF ring.isAromatic = "true" /\ steps # {}
      THEN stop("Syntax", "expected aromatic bond in aromatic ring",
                A[members[firstStep + 1]].smilesStringPosition)
      ELSE ResolveLoop(A, R1, mols, Tail(ps))

\* "Find ring members" with the case and aromaticity checks
ResolveRings ==
  /\ pc = "resolveRings"
  /\ LET res == ResolveLoop(atoms, rings, molecules, MolRingPairs(molecules)) IN
     IF res.kind = "TypeError" THEN Crash(res.msg)
     ELSE IF res.kind # "" THEN Fail(res.kind, res.msg, res.col)
     ELSE /\ atoms' = res.atoms
          /\ rings' = res.rings
          /\ pc' = "checkLowercase"
          /\ UNCHANGED <<smiles, opts, stack, molecules, openRings,
                         reactionIndexes, groupMap, err, run, first,
                         molRefs, returned>>

\* the check for lowercase atoms outside rings switched off
NeverStray(A, R, gid) == FALSE

\* a lowercase atom that is a member of no ring
StrayLowercase(A, R, gid) ==
  A[gid].isLowercase /\ ~\E r \in DOMAIN R : gid \in Range(R[r].members)

\* "Invalid lowercase groups"
CheckLowercase ==
  /\ pc = "checkLowercase"
  /\ LET bad == {g \in groupMap : StrayLowercase(atoms, rings, g)} IN
     IF bad # {}
     THEN Fail("Syntax", "unexpected lowercase atom outside of ring structure",
               atoms[CHOOSE g \in bad : \A h \in bad : g <= h].smilesStringPosition)
     ELSE /\ pc' = "addHydrogens"
          /\ UNCHANGED <<smiles, opts, stack, atoms, molecules, rings,
                         openRings, reactionIndexes, groupMap, err, run, first,
                         molRefs, returned>>

\* ps.molecules.forEach(m => m.addImplicitHydrogens()); yields [atoms, mols]
RECURSIVE HydrogensLoop(_, _, _)
HydrogensLoop(A, mols, i) ==
  IF i > Len(mols) THEN [atoms |-> A, mols |-> mols]
  ELSE LET r == addImplicitHydrogens(A, mols[i].groups) IN
       HydrogensLoop(r.atoms, [mols EXCEPT ![i].groups = r.groups], i + 1)

\* "Add implicit hydrogens?"
AddHydrogens ==
  /\ pc = "addHydrogens"
  /\ LET r == IF opts.addImplicitHydrogens
              THEN HydrogensLoop(atoms, molecules, 1)
              ELSE [atoms |-> atoms, mols |-> molecules]
     IN  /\ atoms' = r.atoms
         /\ molecules' = r.mols
  /\ pc' = "checkBonds"
  /\ UNCHANGED <<smiles, opts, stack, rings, openRings, reactionIndexes,
                 groupMap, err, run, first,
                 molRefs, returned>>

\* "Check bond count"
CheckBonds ==
  /\ pc = "checkBonds"
  /\ LET bad == {m \in DOMAIN molecules :
                   checkBondCounts(atoms, molecules[m].groups) # 0}
         m0  == CHOOSE m \in bad : \A k \in bad : m <= k
     IN
     IF opts.checkBondCount /\ bad # {}
     THEN Fail("Bond", "invalid bond count for organic atom",
               atoms[checkBondCounts(atoms, molecules[m0].groups)].smilesStringPosition)
     ELSE /\ pc' = "accepted"
          /\ UNCHANGED <<smiles, opts, stack, atoms, molecules, rings,
                         openRings, reactionIndexes, groupMap, err, run, first,
                         molRefs, returned>>

---------------------------------------------------------------------------
(* The second parse: ParsedSMILES.generateSMILES of an accepted input is   *)
(* given back to SMILES.parse under the same options.                      *)

\* [element |-> number of explicit atoms of that element]
ElementCount(A) ==
  [e \in DOMAIN organicSubset \cup {"H"} |->
     Cardinality({i \in DOMAIN A : ~A[i].isImplicit /\ A[i].el = e})]

\* [bond type |-> number of bond records of that type between explicit atoms]
BondTypeCount(A) ==
  [b \in {"-", "=", "#", ":"} |->
     Cardinality({ik \in (DOMAIN A) \X (1 .. Len(A)) :
                    /\ ik[2] \in DOMAIN A[ik[1]].bonds
                    /\ A[ik[1]].bonds[ik[2]].bond = b
                    /\ ~A[ik[1]].isImplicit
                    /\ ~A[A[ik[1]].bonds[ik[2]].dest].isImplicit})]

NoFirst == [smiles |-> <<>>, elements |-> <<>>, bonds |-> <<>>]

\* no method has been called on the parse result
NoReturn == [method |-> "", value |-> <<>>]

\* new ParsedSMILES(smiles, parseOptions) and the first call of _parse
Begin(text) ==
  /\ smiles' = text
  /\ pc' = "parse"
  /\ stack' = <<Frame(0, Len(text), 0, 0)>>
  /\ atoms' = <<>>
  /\ molecules' = <<[groups |-> {}, rings |-> <<>>]>>
  /\ rings' = <<>>
  /\ openRings' = <<>>
  /\ reactionIndexes' = <<>>
  /\ groupMap' = {}
  /\ err' = NoError
  /\ molRefs' = <<1>>
  /\ returned' = NoReturn

ReSerialize ==
  /\ pc = "accepted" /\ run = 1
  /\ first' = [smiles |-> smiles, elements |-> ElementCount(atoms),
               bonds |-> BondTypeCount(atoms)]
  /\ LET gen == ParsedGenerateSMILES(atoms, molecules, reactionIndexes, FALSE) IN
     IF gen.crashed
     THEN /\ pc' = "generateCrash"
          /\ UNCHANGED <<smiles, opts, stack, atoms, molecules, rings,
                         openRings, reactionIndexes, groupMap, err, run,
                         molRefs, returned>>
     ELSE /\ Begin(gen.text)
          /\ run' = 2
          /\ UNCHANGED opts

---------------------------------------------------------------------------
(* Methods called on the molecules of an accepted parse result.  The      *)
(* methods of this section change nothing, so one call is made on a        *)
(* result.                                                                 *)

\* mol.countAtoms() on molecule m of the result of the first parse
CountAtoms ==
  /\ pc = "accepted" /\ run = 1 /\ returned = NoReturn
  /\ \E m \in DOMAIN molecules :
       returned' = [method |-> "countAtoms",
                    value |-> [mol |-> m,
                               entries |-> countAtoms(atoms, molecules[m].groups,
                                                      FALSE)]]
  /\ UNCHANGED <<smiles, opts, pc, stack, atoms, molecules, rings, openRings,
                 reactionIndexes, groupMap, err, run, first, molRefs>>

\* mol.generateMolecularFormula() on molecule m of the result of the first
\* parse
GenerateMolecularFormula ==
  /\ pc = "accepted" /\ run = 1 /\ returned = NoReturn
  /\ \E m \in DOMAIN molecules :
       returned' = [method |-> "generateMolecularFormula",
                    value |-> [mol |-> m,
                               formula |-> generateMolecularFormula(
                                             atoms, molecules[m].groups)]]
  /\ UNCHANGED <<smiles, opts, pc, stack, atoms, molecules, rings, openRings,
                 reactionIndexes, groupMap, err, run, first, molRefs>>

\* mol.generateCondensedFormula() on molecule m of the result of the first
\* parse
GenerateCondensedFormula ==
  /\ pc = "accepted" /\ run = 1 /\ returned = NoReturn
  /\ \E m \in DOMAIN molecules :
       returned' = [method |-> "generateCondensedFormula",
                    value |-> [mol |-> m] @@
                              generateCondensedFormula(atoms, molecules[m].groups)]
  /\ UNCHANGED <<smiles, opts, pc, stack, atoms, molecules, rings, openRings,
                 reactionIndexes, groupMap, err, run, first, molRefs>>

\* mol.generateSMILES(showImplicits) on molecule m of the result of the
\* first parse
GenerateSMILES ==
  /\ pc = "accepted" /\ run = 1 /\ returned = NoReturn
  /\ \E m \in DOMAIN molecules : \E showImplicits \in BOOLEAN :
       returned' = [method |-> "generateSMILES",
                    value |-> [mol |-> m, showImplicits |-> showImplicits] @@
                              MoleculeGenerateSMILES(atoms, molecules[m].groups,
                                                     showImplicits)]
  /\ UNCHANGED <<smiles, opts, pc, stack, atoms, molecules, rings, openRings,
                 reactionIndexes, groupMap, err, run, first, molRefs>>

\* array.splice(pos, 0, x), pos from 0
Splice(arr, pos, x) ==
  LET at == IF pos < 0 THEN Max({Len(arr) + pos, 0})
            ELSE IF pos > Len(arr) THEN Len(arr) ELSE pos
  IN  SubSeq(arr, 1, at) \o <<x>> \o SubSeq(arr, at + 1, Len(arr))

\* 1 + reactionIndexes.findIndex(...): the indexes count from 0
addMoleculeJ(ri, pos) ==
  LET hits == {k \in DOMAIN ri :
                 pos >= ri[k] /\ (k = Len(ri) \/ pos < ri[k + 1])}
  IN  IF hits = {} THEN 0 ELSE CHOOSE k \in hits : \A h \in hits : k <= h

\* the reaction indexes after addMolecule(mol, pos); with no index,
\* reactionIndexes[0] + 1 is NaN and the first test is false
addMoleculeIndexes(ri, pos) ==
  IF ri # <<>> /\ pos <= ri[1] + 1
  THEN [k \in DOMAIN ri |-> ri[k] + 1]
  ELSE LET j == addMoleculeJ(ri, pos) IN
       [k \in DOMAIN ri |-> IF j >= k - 1 THEN k ELSE k - 1]

\* ps.addMolecule(new Molecule(), pos); pos = -1 stands for no pos given
AddMolecule ==
  /\ pc = "accepted" /\ Len(molecules) < MaxMolecules
  /\ \E given \in -1 .. Len(molecules) :
       LET pos == IF given = -1 THEN Len(molecules) - 1 ELSE given IN
       /\ molecules' = Splice(molecules, pos, [groups |-> {}, rings |-> <<>>])
       /\ molRefs' = Splice(molRefs, pos, NewRef(molRefs))
       /\ reactionIndexes' = addMoleculeIndexes(reactionIndexes, pos)
  /\ returned' = [method |-> "addMolecule", value |-> <<>>]
  /\ UNCHANGED <<smiles, opts, pc, stack, atoms, rings, openRings, groupMap,
                 err, run, first>>

\* mol.severBond(id1, id2) on a molecule of the parse result
SeverBond ==
  /\ pc = "accepted"
  /\ \E m \in DOMAIN molecules :
       \E id1 \in molecules[m].groups : \E id2 \in molecules[m].groups :
         LET r == severBond(atoms, id1, id2) IN
         /\ atoms' = r.atoms
         /\ returned' = [method |-> "severBond",
                         value |-> [mol |-> m, id1 |-> id1, id2 |-> id2,
                                    result |-> r.result]]
  /\ pc' = "severed"
  /\ UNCHANGED <<smiles, opts, stack, molecules, rings, openRings,
                 reactionIndexes, groupMap, err, run, first, molRefs>>

\* mol.removeUnbondedGroups(startID) on a molecule of the parse result,
\* before or after a bond was severed
RemoveUnbondedGroups ==
  /\ pc \in {"accepted", "severed"}
  /\ \E m \in DOMAIN molecules : \E startID \in molecules[m].groups :
       LET r == removeUnbondedGroups(atoms, molecules[m].groups, startID) IN
       /\ molecules' = [molecules EXCEPT ![m].groups = r.groups]
       /\ returned' = [method |-> "removeUnbondedGroups",
                       value |-> [mol |-> m, startID |-> startID,
                                  crashed |-> r.crashed,
                                  discarded |-> r.discarded]]
       /\ pc' = IF r.crashed THEN "methodCrash" ELSE "pruned"
  /\ UNCHANGED <<smiles, opts, stack, atoms, rings, openRings,
                 reactionIndexes, groupMap, err, run, first, molRefs>>

\* mol.calculateMr() on a molecule of the parse result, before or after the
\* calls that change it
CalculateMr ==
  /\ pc \in {"accepted", "severed", "pruned"}
  /\ \E m \in DOMAIN molecules :
       returned' = [method |-> "calculateMr",
                    value |-> [mol |-> m] @@ calculateMr(atoms, molecules[m].groups)]
  /\ pc' = "measured"
  /\ UNCHANGED <<smiles, opts, stack, atoms, molecules, rings, openRings,
                 reactionIndexes, groupMap, err, run, first, molRefs>>

\* the reaction indexes after the removal of the molecule at index i
removeMoleculeIndexes(ri, i) ==
  [k \in DOMAIN ri |-> IF ri[k] >= i THEN ri[k] - 1 ELSE ri[k]]

\* this.rings.filter(ring => !mol.rings.includes(ring)); the rings that stay
\* keep their order, and the molecules point to their new places
RingsKept(R, mol) == SelectSeq([r \in DOMAIN R |-> r], LAMBDA r : r \notin Range(mol.rings))

RingPlace(kept, r) == CHOOSE k \in DOMAIN kept : kept[k] = r

\* ps.removeMolecule(mol), mol the object ref
RemoveMolecule ==
  /\ pc = "accepted"
  /\ \E ref \in Range(molRefs) \cup {NewRef(molRefs)} :
       LET found == {k \in DOMAIN molRefs : molRefs[k] = ref} IN
       IF found = {}
       THEN /\ returned' = [method |-> "removeMolecule", value |-> FALSE]
            /\ UNCHANGED <<molecules, molRefs, reactionIndexes, rings>>
       ELSE LET i    == (CHOOSE k \in found : \A h \in found : k <= h) - 1
                kept == RingsKept(rings, molecules[i + 1])
                left == SpliceOut(molecules, i)
            IN  /\ molecules' =
                     [m \in DOMAIN left |->
                        [left[m] EXCEPT !.rings =
                           [x \in DOMAIN left[m].rings |->
                              RingPlace(kept, left[m].rings[x])]]]
                /\ molRefs' = SpliceOut(molRefs, i)
                /\ reactionIndexes' = removeMoleculeIndexes(reactionIndexes, i)
                /\ rings' = [k \in DOMAIN kept |-> rings[kept[k]]]
                /\ returned' = [method |-> "removeMolecule", value |-> TRUE]
  /\ UNCHANGED <<smiles, opts, pc, stack, atoms, openRings, groupMap, err,
                 run, first>>

---------------------------------------------------------------------------
(* The inputs.                                                             *)

\* createParseOptionsObject, with inorganic atoms switched off
DefaultOptions ==
  [enableSeperatedStructures |-> TRUE, enableReaction |-> TRUE,
   enableMultipleReactions |-> TRUE, enableAromaticity |-> TRUE,
   enableChargeClauses |-> TRUE, cumulativeCharge |-> TRUE,
   enableInorganicAtoms |-> FALSE, enableChains |-> TRUE,
   enableRings |-> TRUE, addImplicitHydrogens |-> TRUE,
   checkBondCount |-> TRUE]

\* the one-character strings over a set of characters
Chars(cs) == {<<c>> : c \in cs}

\* a family of inputs: one of the heads followed by characters of alpha, at
\* most maxLen characters in all, parsed under one of the options
Family(heads, alpha, maxLen, options) ==
  [heads |-> heads, alpha |-> alpha, maxLen |-> maxLen, options |-> options]

RingInputs == Family(Chars({"C"}), {"C", "1", "2"}, MaxLenRing, {DefaultOptions})

BranchInputs ==
  Family({<<"C", "(", "C">>}, {"C", "(", ")", "1", "="}, MaxLenBranch,
         {DefaultOptions})

SeparatedInputs ==
  Family(Chars({"C", ".", "1", "(", ">"}), {"C", ".", "1", "(", ")", ">"},
         MaxLenSeparated, {DefaultOptions})

ReactionInputs ==
  Family(Chars({"C", ">", "."}) \cup {<<"C", ">", "=">>}, {"C", ">", "."},
         MaxLenReaction,
         {[DefaultOptions EXCEPT !.enableMultipleReactions = m] : m \in BOOLEAN})

ChargeInputs ==
  Family({<<"C", "{">>, <<"N", "{">>}, {"C", "N", "{", "+", "-", "}", "="},
         MaxLenCharge,
         {[DefaultOptions EXCEPT !.cumulativeCharge = c] : c \in BOOLEAN})

ValenceInputs ==
  Family(Chars({"C", "N", "O"}), {"C", "N", "O", "=", "#"}, MaxLenValence,
         {[DefaultOptions EXCEPT !.addImplicitHydrogens = h,
                                 !.checkBondCount = c] :
            h \in BOOLEAN, c \in BOOLEAN})

LowercaseInputs ==
  Family({<<"c", "1">>}, {"c", "C", "1"}, MaxLenLowercase,
         {[DefaultOptions EXCEPT !.addImplicitHydrogens = h,
                                 !.checkBondCount = c] :
            h \in BOOLEAN, c \in BOOLEAN})

\* the results that molecules are added to and removed from
EditedInputs ==
  Family(Chars({"C"}), {"C", ">", "."}, MaxLenEdited, {DefaultOptions})

AromaticInputs ==
  Family({<<"C", "1">>, <<"c", "1">>}, {"C", "c", ":", "1"}, MaxLenAromatic,
         {DefaultOptions})

\* the results whose bonds are severed and whose molecules are pruned
SeveredInputs ==
  Family(Chars({"C"}), {"C", "1"}, MaxLenSevered,
         {[DefaultOptions EXCEPT !.addImplicitHydrogens = h,
                                 !.checkBondCount = h] : h \in BOOLEAN})

\* a ring inside a ring
FusedInputs ==
  Family({<<"C", "1", "C", "2", "C">>}, {"C", "1", "2"}, MaxLenFused,
         {DefaultOptions})

\* charge clauses after a charged atom and after a branch
ClauseInputs ==
  Family({<<"C", "{", "+", "}">>, <<"C", "(", "C", ")">>}, {"{", "+", "-", "}"},
         MaxLenClause,
         {[DefaultOptions EXCEPT !.cumulativeCharge = c] : c \in BOOLEAN})

\* charge clauses after a charged atom that is followed by a branch
BranchClauseInputs ==
  Family({<<"C", "(", "C", ")", "{", "+", "}">>}, {"{", "+", "-", "}"},
         MaxLenClause + 3,
         {[DefaultOptions EXCEPT !.cumulativeCharge = c] : c \in BOOLEAN})

Families ==
  {RingInputs, BranchInputs, SeparatedInputs, ReactionInputs, ChargeInputs,
   ValenceInputs, LowercaseInputs, AromaticInputs, ClauseInputs,
   BranchClauseInputs, FusedInputs}

---------------------------------------------------------------------------

Init ==
  /\ \E f \in Families : \E h \in f.heads : \E k \in 0 .. f.maxLen - Len(h) :
       \E t \in [1 .. k -> f.alpha] : \E o \in f.options :
         /\ smiles = h \o t
         /\ opts = o
  /\ pc = "parse"
  /\ stack = <<Frame(0, Len(smiles), 0, 0)>>
  /\ atoms = <<>>
  /\ molecules = <<[groups |-> {}, rings |-> <<>>]>>
  /\ rings = <<>>
  /\ openRings = <<>>
  /\ reactionIndexes = <<>>
  /\ groupMap = {}
  /\ err = NoError
  /\ run = 1
  /\ first = NoFirst
  /\ molRefs = <<1>>
  /\ returned = NoReturn

Next ==
  \/ DisconnectedStructure
  \/ Reaction
  \/ ExplicitBond
  \/ Charge
  \/ Chain
  \/ ChainReturn
  \/ RingDigits
  \/ OrganicAtom
  \/ ParseReturn
  \/ CheckReaction
  \/ CheckBridging
  \/ CloseRings
  \/ ResolveRings
  \/ CheckLowercase
  \/ AddHydrogens
  \/ CheckBonds
  \/ ReSerialize
  \/ CountAtoms
  \/ GenerateMolecularFormula
  \/ GenerateCondensedFormula
  \/ GenerateSMILES

Spec == Init /\ [][Next]_vars

\* the parse of a reaction, and then molecules added to and removed from
\* the result
EditedInit ==
  /\ \E h \in EditedInputs.heads : \E k \in 0 .. EditedInputs.maxLen - Len(h) :
       \E t \in [1 .. k -> EditedInputs.alpha] :
         /\ smiles = h \o t
         /\ opts = DefaultOptions
  /\ pc = "parse"
  /\ stack = <<Frame(0, Len(smiles), 0, 0)>>
  /\ atoms = <<>>
  /\ molecules = <<[groups |-> {}, rings |-> <<>>]>>
  /\ rings = <<>>
  /\ openRings = <<>>
  /\ reactionIndexes = <<>>
  /\ groupMap = {}
  /\ err = NoError
  /\ run = 1
  /\ first = NoFirst
  /\ molRefs = <<1>>
  /\ returned = NoReturn

EditedNext ==
  \/ DisconnectedStructure
  \/ Reaction
  \/ OrganicAtom
  \/ ParseReturn
  \/ CheckReaction
  \/ CheckBridging
  \/ CloseRings
  \/ ResolveRings
  \/ CheckLowercase
  \/ AddHydrogens
  \/ CheckBonds
  \/ AddMolecule
  \/ RemoveMolecule

EditedSpec == EditedInit /\ [][EditedNext]_vars

\* the parse of a chain or a ring, and then a bond severed, a molecule pruned
\* and its mass calculated
SeveredInit ==
  /\ \E h \in SeveredInputs.heads : \E k \in 0 .. SeveredInputs.maxLen - Len(h) :
       \E t \in [1 .. k -> SeveredInputs.alpha] : \E o \in SeveredInputs.options :
         /\ smiles = h \o t
         /\ opts = o
  /\ pc = "parse"
  /\ stack = <<Frame(0, Len(smiles), 0, 0)>>
  /\ atoms = <<>>
  /\ molecules = <<[groups |-> {}, rings |-> <<>>]>>
  /\ rings = <<>>
  /\ openRings = <<>>
  /\ reactionIndexes = <<>>
  /\ groupMap = {}
  /\ err = NoError
  /\ run = 1
  /\ first = NoFirst
  /\ molRefs = <<1>>
  /\ returned = NoReturn

SeveredNext ==
  \/ RingDigits
  \/ OrganicAtom
  \/ ParseReturn
  \/ CheckReaction
  \/ CheckBridging
  \/ CloseRings
  \/ ResolveRings
  \/ CheckLowercase
  \/ AddHydrogens
  \/ CheckBonds
  \/ SeverBond
  \/ RemoveUnbondedGroups
  \/ CalculateMr

SeveredSpec == SeveredInit /\ [][SeveredNext]_vars

---------------------------------------------------------------------------
(* Properties of SMILES.parse and of the round trip.                       *)

\* SMILES.parse has returned or thrown
Terminal == pc \in {"accepted", "error", "crash"}

\* the recursive descent has returned without an error
DescentDone == stack = <<>>

\* the rings with the molecule in whose rings list they are registered
OwnedRings == Range(MolRingPairs(molecules))

\* C1: for every accepted input without a reaction arrow, generateSMILES
\* returns a text, the parse of that text is accepted, and it yields the same
\* number of atoms of every element and the same number of bonds of every
\* type as the first parse.
C1_RoundTrip ==
  (first.smiles # <<>> /\ ">" \notin Range(first.smiles)) =>
    /\ pc \notin {"generateCrash", "error", "crash"}
    /\ pc = "accepted" => /\ ElementCount(atoms) = first.elements
                          /\ BondTypeCount(atoms) = first.bonds

\* twice the bond-count weight of atom g of molecule G is twice one of the
\* allowed valences of its element
InValenceSet(A, G, g) ==
  \E v \in Range(organicSubset[A[g].el]) : getBondCount2(A, G, g) = 2 * v

HydrogensAndCheck == opts.addImplicitHydrogens /\ opts.checkBondCount

C3_RingOfTwoOccurrences ==
  pc = "accepted" =>
    \A r \in DOMAIN rings :
      (\A q \in DOMAIN rings : q # r => rings[q].digit # rings[r].digit) =>
        /\ Len(rings[r].members) >= 2
        /\ rings[r].members[1] = rings[r].start

\* no atom occurs twice
IsSimple(path) ==
  \A i \in DOMAIN path : \A j \in DOMAIN path : i # j => path[i] # path[j]

\* consecutive atoms are joined by a bond
IsJoined(A, G, path) ==
  \A i \in 1 .. Len(path) - 1 :
    \E b \in Range(getAllBonds(A, G, path[i])) : b.dest = path[i + 1]

\* the number of atoms of a longest simple path from cur to endID that stays
\* within allowed and avoids seen; 0 when there is none
RECURSIVE LongestSimple(_, _, _, _, _, _)
LongestSimple(A, G, cur, endID, allowed, seen) ==
  IF cur = endID THEN 1
  ELSE LET nexts == {b.dest : b \in Range(getAllBonds(A, G, cur))}
                    \cap (allowed \ seen)
           lens  == {LongestSimple(A, G, n, endID, allowed, seen \cup {n}) :
                       n \in nexts} \ {0}
       IN  IF lens = {} THEN 0 ELSE 1 + Max(lens)

\* the checks after ring resolution let the result through
PassesRest(A, R, mols) ==
  /\ \A g \in groupMap : ~StrayLowercase(A, R, g)
  /\ LET h == IF opts.addImplicitHydrogens
              THEN HydrogensLoop(A, mols, 1)
              ELSE [atoms |-> A, mols |-> mols]
     IN  opts.checkBondCount =>
           \A m \in DOMAIN h.mols : checkBondCounts(h.atoms, h.mols[m].groups) = 0

\* C4: when ring resolution of a parse that is then accepted replaces the
\* provisional members of a ring, the new member list is a longest simple
\* path from the ring's start to its end within the provisional members:
\* consecutive members bonded, no atom twice, of maximal length.
C4_LongestSimplePath ==
  [][(pc = "resolveRings" /\ pc' = "checkLowercase"
      /\ PassesRest(atoms', rings', molecules)) =>
       \A p \in OwnedRings :
         LET old == rings[p.ring]
             new == rings'[p.ring].members
             G   == molecules[p.mol].groups
         IN  /\ IsSimple(new)
             /\ IsJoined(atoms, G, new)
             /\ new[1] = old.start /\ new[Len(new)] = old.end
             /\ Len(new) = LongestSimple(atoms, G, old.start, old.end,
                                         Range(old.members), {old.start})]_vars

\* C5: no accepted result holds a ring with a member outside the molecule
\* that owns the ring, and whenever the descent leaves such a ring the parse
\* fails with the Ring error 'ring structure cannot bridge molecules'.
C5_NoBridgingRing ==
  /\ [](pc = "accepted" => \A p \in OwnedRings : ~Bridges(molecules, rings, p))
  /\ [][(pc = "checkBridging" /\ \E p \in OwnedRings : Bridges(molecules, rings, p))
          => /\ pc' = "error"
             /\ err'.kind = "Ring"
             /\ err'.msg = "ring structure cannot bridge molecules"]_vars

\* a ring left open whose provisional members all lie in its own molecule
UnclosedInOneMolecule ==
  \E p \in OwnedRings :
    RingUnclosed(rings[p.ring]) /\ ~Bridges(molecules, rings, p)

\* the parse has failed with the Ring error for an unclosed ring digit d
UnclosedRingError(d) ==
  /\ pc = "error"
  /\ err.kind = "Ring" /\ err.msg = "unclosed ring" /\ err.arg = d

\* C6 (as stated): an input that leaves a ring digit open, with every atom
\* created while it was open in the same molecule, is rejected with a Ring
\* error that names the unclosed digit.
C6_UnclosedRingRejected ==
  (Terminal /\ DescentDone /\ UnclosedInOneMolecule) =>
    \E r \in DOMAIN rings :
      RingUnclosed(rings[r]) /\ UnclosedRingError(rings[r].digit)

\* C6 (amended): when the descent completes with an even number of reaction
\* markers, no ring bridging molecules and some ring left open, the parse is
\* rejected with the Ring error that names the digit of the first ring left
\* open, at the column of that ring's start atom; no input that leaves a ring
\* open is accepted.
C6_UnclosedRingReached ==
  /\ pc = "accepted" => \A r \in DOMAIN rings : ~RingUnclosed(rings[r])
  /\ ( /\ Terminal /\ DescentDone
       /\ Len(reactionIndexes) % 2 = 0
       /\ \A p \in OwnedRings : ~Bridges(molecules, rings, p)
       /\ \E r \in DOMAIN rings : RingUnclosed(rings[r]) )
     => \E r \in DOMAIN rings :
          /\ RingUnclosed(rings[r])
          /\ \A q \in 1 .. r - 1 : ~RingUnclosed(rings[q])
          /\ UnclosedRingError(rings[r].digit)
          /\ err.col = atoms[rings[r].start].smilesStringPosition

\* the parse of an input with two rings left open has failed on the first
C6_Witness ==
  /\ Len(rings) = 2 /\ RingUnclosed(rings[1]) /\ RingUnclosed(rings[2])
  /\ rings[1].digit # rings[2].digit
  /\ UnclosedRingError(rings[1].digit)

\* the ring-digit block is about to read a token that repeats a digit
DuplicateToken ==
  /\ Dispatching /\ ~ChargeCond /\ ~InorganicCond /\ ~ChainCond /\ DigitCond
  /\ Top.groups # <<>>
  /\ ~parseDigitString(Top, Top.pos).bad
  /\ HasDuplicates(parseDigitString(Top, Top.pos).digits)

\* C7: a digit token that attaches the same ring digit twice to one atom is
\* rejected with the Syntax error for duplicate ring digits, and no ring whose
\* start atom is also its end atom is ever created.
C7_NoRingOnOneAtom ==
  /\ [](\A r \in DOMAIN rings : rings[r].start # rings[r].end)
  /\ [][DuplicateToken =>
          /\ pc' = "error"
          /\ err'.kind = "Syntax"
          /\ err'.msg = "duplicate ring endings found"]_vars

IncompleteReactionError ==
  /\ pc = "error"
  /\ err.kind = "Syntax" /\ err.msg = "> expected (incomplete reaction)"

\* C8 (as stated): every accepted result has an even number of reaction
\* markers, and every input that consumes an odd number of '>' is rejected
\* with a Syntax error (of the error '>' expected, incomplete reaction, only
\* the kind is required here).
C8_MarkersInPairs ==
  /\ pc = "accepted" => Len(reactionIndexes) % 2 = 0
  /\ (Terminal /\ Len(reactionIndexes) % 2 = 1) =>
       (pc = "error" /\ err.kind = "Syntax")

\* C8 (amended): every accepted result has an even number of reaction
\* markers, and every input whose descent completes having consumed an odd
\* number of '>' is rejected with the Syntax error '>' expected (incomplete
\* reaction) at the last column of the input.
C8_MarkersInPairsWhenReached ==
  /\ pc = "accepted" => Len(reactionIndexes) % 2 = 0
  /\ (Terminal /\ DescentDone /\ Len(reactionIndexes) % 2 = 1) =>
       (IncompleteReactionError /\ err.col = Len(smiles) - 1)

\* an input with three reaction markers has been rejected by the parity check
C8_Witness ==
  IncompleteReactionError /\ DescentDone /\ Len(reactionIndexes) = 3

\* the position of the first of two adjacent '>' (0 when there is none)
ArrowPos(s) ==
  LET ks == {k \in 1 .. Len(s) - 1 : s[k] = ">" /\ s[k + 1] = ">"}
  IN  IF ks = {} THEN 0 ELSE CHOOSE k \in ks : \A j \in ks : k <= j

IsAtomChar(c) == c \in DOMAIN organicSubset

\* s is R>>P: exactly two '>', adjacent, R and P both starting with an atom
IsReactionForm(s) ==
  /\ Cardinality({k \in DOMAIN s : s[k] = ">"}) = 2
  /\ ArrowPos(s) >= 2 /\ ArrowPos(s) + 2 <= Len(s)
  /\ IsAtomChar(s[1]) /\ IsAtomChar(s[ArrowPos(s) + 2])

\* the number of atoms written in s[1 .. n]
AtomsWritten(s, n) == Cardinality({k \in 1 .. n : IsAtomChar(s[k])})

\* the index in ps.molecules (from 0) of the molecule that holds atom g
MoleculeOf(g) == (CHOOSE m \in DOMAIN molecules : g \in molecules[m].groups) - 1

\* C9: an accepted input R>>P has exactly two reaction markers, both the
\* index of the last reactant molecule; the first atom of P lies in the
\* molecule directly after it (no molecule between the arrows) and no atom of
\* P is bonded to an atom of R.
C9_AdjacentArrows ==
  (pc = "accepted" /\ IsReactionForm(smiles)) =>
    LET nR == AtomsWritten(smiles, ArrowPos(smiles))
        R  == 1 .. nR
        P  == {g \in DOMAIN atoms : g > nR /\ ~atoms[g].isImplicit}
    IN  /\ reactionIndexes = <<MoleculeOf(nR), MoleculeOf(nR)>>
        /\ MoleculeOf(nR + 1) = MoleculeOf(nR) + 1
        /\ \A g \in P : MoleculeOf(g) > MoleculeOf(nR)
        /\ \A a \in R : \A b \in P : ~Bonded(atoms, a, b)

\* an accepted R>>P whose reactants are two molecules
C9_Witness ==
  /\ pc = "accepted" /\ run = 1 /\ IsReactionForm(smiles)
  /\ reactionIndexes = <<1, 1>>
  /\ Len(molecules) = 3

\* s is a digit on the first and on the last of n >= 3 uppercase atoms
IsPlainRing(s) ==
  /\ Len(s) >= 5
  /\ IsAtomChar(s[1]) /\ isDigitChar(s[2]) /\ s[Len(s)] = s[2]
  /\ \A k \in 3 .. Len(s) - 1 : IsAtomChar(s[k])

\* C10: the parse of one ring over a plain chain of n >= 3 uppercase atoms
\* is accepted with exactly one ring, whose members are the n atoms in input
\* order, whose aromaticity flag is false and whose start atom holds a single
\* bond to its end atom.
C10_PlainRing ==
  (Terminal /\ IsPlainRing(smiles)) =>
    LET n == Len(smiles) - 2 IN
    /\ pc = "accepted"
    /\ Len(rings) = 1
    /\ rings[1].members = [i \in 1 .. n |-> i]
    /\ rings[1].isAromatic = "false"
    /\ rings[1].start = 1 /\ rings[1].end = n
    /\ \E k \in DOMAIN atoms[1].bonds :
         atoms[1].bonds[k] = [bond |-> "-", dest |-> n]

\* an accepted ring of six atoms
C10_Witness ==
  /\ pc = "accepted" /\ run = 1 /\ IsPlainRing(smiles)
  /\ Len(rings) = 1 /\ Len(rings[1].members) = 6

\* s is a digit on the first and on the last of n >= 2 lowercase carbons
IsLowercaseRing(s) ==
  /\ Len(s) >= 4
  /\ s[1] = "c" /\ isDigitChar(s[2]) /\ s[Len(s)] = s[2]
  /\ \A k \in 3 .. Len(s) - 1 : s[k] = "c"

\* the bond record between a and b, on whichever atom stores it
BondBetween(A, a, b) ==
  {A[a].bonds[i].bond : i \in {k \in DOMAIN A[a].bonds : A[a].bonds[k].dest = b}}
  \cup
  {A[b].bonds[i].bond : i \in {k \in DOMAIN A[b].bonds : A[b].bonds[k].dest = a}}

\* the atoms bonded to g that are no members of the ring
OutsideNeighbours(A, g, members) ==
  {h \in DOMAIN A : h \notin Range(members) /\ Bonded(A, g, h)}

\* the result holds one aromatic ring of the n lowercase atoms in input
\* order, with aromatic bonds all round and, when hydrogens are added, one
\* implicit hydrogen as the only other neighbour of every ring atom
AromaticRingResult(n) ==
  /\ Len(rings) = 1
  /\ rings[1].members = [i \in 1 .. n |-> i]
  /\ \A i \in 1 .. n : atoms[i].isLowercase
  /\ rings[1].isAromatic = "true"
  /\ \A i \in 1 .. n - 1 : BondBetween(atoms, i, i + 1) = {":"}
  /\ BondBetween(atoms, 1, n) = {":"}
  /\ opts.addImplicitHydrogens =>
       \A i \in 1 .. n :
         /\ Cardinality(OutsideNeighbours(atoms, i, rings[1].members)) = 1
         /\ \A h \in OutsideNeighbours(atoms, i, rings[1].members) :
              atoms[h].el = "H" /\ atoms[h].isImplicit

\* C11 (as stated): the accepted parse of one ring written entirely with
\* lowercase carbons, of any number of atoms, has all ring atoms lowercase,
\* the ring aromatic, every bond between consecutive members and the closure
\* bond aromatic and, with implicit hydrogens enabled, exactly one neighbour
\* outside the ring on every ring atom, an implicit hydrogen.
C11_LowercaseRing ==
  (pc = "accepted" /\ IsLowercaseRing(smiles)) =>
    AromaticRingResult(Len(smiles) - 2)

\* C11 (amended): the parse of one ring written entirely with n >= 3
\* lowercase carbons is rejected only by the bond-count check when implicit
\* hydrogens are switched off, and its accepted result has the n atoms
\* lowercase, the ring aromatic, every bond between consecutive members and
\* the closure bond aromatic and, with implicit hydrogens enabled, exactly
\* one neighbour outside the ring on every ring atom, an implicit hydrogen.
C11_LowercaseRingOfThree ==
  (Terminal /\ IsLowercaseRing(smiles) /\ Len(smiles) >= 5) =>
    IF opts.checkBondCount /\ ~opts.addImplicitHydrogens
    THEN pc = "error" /\ err.kind = "Bond"
    ELSE pc = "accepted" /\ AromaticRingResult(Len(smiles) - 2)

\* the accepted first parse of a ring of six lowercase carbons, with
\* implicit hydrogens
C11_Witness ==
  /\ pc = "accepted" /\ run = 1 /\ opts.addImplicitHydrogens
  /\ IsLowercaseRing(smiles) /\ Len(smiles) = 8

\* the atoms of molecule G that have the atom string and charge of entry e
Counted(A, G, e) ==
  {g \in G : getElementString(A[g]) = e.atom /\ A[g].charge = e.charge}

\* the place of an entry in the Hill system: carbon, hydrogen, the rest
HillClass(e) ==
  IF e.atom = "C" THEN 0 ELSE IF e.atom = "H" THEN 1 ELSE 1 + AlphabetRank[e.atom]

\* entry a stands before entry b in the Hill system
HillBefore(a, b) ==
  \/ HillClass(a) < HillClass(b)
  \/ HillClass(a) = HillClass(b) /\ a.charge < b.charge

\* C12: countAtoms with groups kept intact returns one entry per distinct
\* (atom string, charge) pair of the molecule, with the number of atoms that
\* have the pair (implicit hydrogens included), carbon entries first, then
\* hydrogen entries, then the other elements alphabetically, each element by
\* ascending charge; "CCO" with implicit hydrogens gives C:2, H:6, O:1 and the
\* molecular formula C2H6O.
C12_HillCount ==
  /\ (pc = "accepted" /\ returned.method = "countAtoms") =>
       LET es == returned.value.entries
           G  == molecules[returned.value.mol].groups
       IN  /\ \A g \in G : \E i \in DOMAIN es : g \in Counted(atoms, G, es[i])
           /\ \A i \in DOMAIN es :
                es[i].count = Cardinality(Counted(atoms, G, es[i])) /\ es[i].count > 0
           /\ \A i \in DOMAIN es : \A j \in DOMAIN es :
                i < j => HillBefore(es[i], es[j])
           /\ (smiles = <<"C", "C", "O">> /\ opts.addImplicitHydrogens) =>
                es = <<[atom |-> "C", charge |-> 0, count |-> 2],
                       [atom |-> "H", charge |-> 0, count |-> 6],
                       [atom |-> "O", charge |-> 0, count |-> 1]>>
  /\ ( /\ pc = "accepted" /\ returned.method = "generateMolecularFormula"
       /\ smiles = <<"C", "C", "O">> /\ opts.addImplicitHydrogens ) =>
       returned.value.formula = <<"C", "2", "H", "6", "O">>

\* countAtoms has returned entries for carbon, hydrogen and a charged
\* nitrogen, in that order
C12_Witness ==
  /\ pc = "accepted" /\ returned.method = "countAtoms"
  /\ \E i, j, k \in DOMAIN returned.value.entries :
       LET es == returned.value.entries IN
       /\ i < j /\ j < k
       /\ es[i].atom = "C" /\ es[j].atom = "H"
       /\ es[k].atom = "N" /\ es[k].charge # 0

\* C13: SMILES.parse returns a validated result or raises the consolidated
\* error made from one of the parser's own diagnostics (a Syntax, Bond or Ring
\* error with a column number); no other failure, such as a runtime exception
\* of ring resolution or of the bridging check, reaches the caller.
C13_OnlyParserErrors ==
  /\ pc # "crash"
  /\ pc = "error" => err.kind \in {"Syntax", "Bond", "Ring"} /\ err.col >= 0

\* the columns, within the text of the running _parse, that its blocks give
\* to an error: the character read, the one after it, the pending bond
LocalColumns(f) ==
  {f.pos, f.pos + 1} \cup (IF f.currentBond # "" THEN {f.currentBondPos} ELSE {})

\* an error is raised by a _parse nested at depth d or deeper
NestedError(d) == pc = "parse" /\ pc' = "error" /\ Len(stack) > d

\* C14: the column number of an error raised while parsing a branch nested
\* at any depth d >= 1 is, when it reaches the top-level parse, the offset in
\* the input string of the offending character: the offset of the innermost
\* branch plus the column within it, no enclosing offset added again.
C14_AbsoluteColumn ==
  [][NestedError(1) =>
       \E local \in LocalColumns(Top) : err'.col = Top.off + local]_vars

\* the number of bond records from a to b stored on a
BondRecords(A, a, b) ==
  Cardinality({k \in DOMAIN A[a].bonds : A[a].bonds[k].dest = b})

PlaceOf(refs, ref) == (CHOOSE k \in DOMAIN refs : refs[k] = ref) - 1

\* the number of reaction arrows between the molecules a and b
ArrowsBetween(refs, ri, a, b) ==
  LET p == PlaceOf(refs, a)
      q == PlaceOf(refs, b)
  IN  Cardinality({k \in DOMAIN ri :
                     (p <= ri[k] /\ ri[k] < q) \/ (q <= ri[k] /\ ri[k] < p)})

NonDecreasing(ri) == \A k \in 1 .. Len(ri) - 1 : ri[k] <= ri[k + 1]

\* C16: over every call of addMolecule or removeMolecule on a parse result,
\* the number of reaction arrows between any two molecules that are in the
\* list before and after the call is unchanged, reactionIndexes keeps its
\* length and stays non-decreasing, and removeMolecule of a molecule that is
\* not in the list returns false and changes nothing.
C16_ReactionBoundaries ==
  [][(pc = "accepted" /\ pc' = "accepted") =>
       /\ \A a \in Range(molRefs) \cap Range(molRefs') :
            \A b \in Range(molRefs) \cap Range(molRefs') :
              ArrowsBetween(molRefs', reactionIndexes', a, b)
                = ArrowsBetween(molRefs, reactionIndexes, a, b)
       /\ Len(reactionIndexes') = Len(reactionIndexes)
       /\ NonDecreasing(reactionIndexes')
       /\ (returned'.method = "removeMolecule" /\ returned'.value = FALSE) =>
            UNCHANGED <<molecules, molRefs, reactionIndexes, rings>>]_vars

\* the members of a ring are all lowercase atoms
AllLowercase(A, members) == \A i \in DOMAIN members : A[members[i]].isLowercase

\* every bond between consecutive members of a ring is typed aromatic
AllAromaticBonds(A, members) ==
  \A i \in 1 .. Len(members) - 1 :
    BondBetween(A, members[i], members[i + 1]) = {":"}

\* C17: in every accepted result the members of every ring are of one case,
\* every ring flagged aromatic is made of lowercase atoms only or has every
\* bond between consecutive members typed aromatic, and every lowercase atom
\* is a member of some resolved ring (so an input that breaks one of these
\* is not accepted).
C17_UniformAromaticRings ==
  pc = "accepted" =>
    /\ \A r \in DOMAIN rings :
         /\ \/ AllLowercase(atoms, rings[r].members)
            \/ \A i \in DOMAIN rings[r].members :
                 ~atoms[rings[r].members[i]].isLowercase
         /\ rings[r].isAromatic = "true" =>
              \/ AllLowercase(atoms, rings[r].members)
              \/ AllAromaticBonds(atoms, rings[r].members)
    /\ \A g \in DOMAIN atoms :
         atoms[g].isLowercase =>
           \E r \in DOMAIN rings : g \in Range(rings[r].members)

\* an accepted result with a ring of three or more uppercase atoms that is
\* flagged aromatic
C17_Witness ==
  /\ pc = "accepted" /\ run = 1
  /\ \E q \in DOMAIN rings :
       /\ Len(rings[q].members) >= 3
       /\ rings[q].isAromatic = "true"
       /\ \A i \in DOMAIN rings[q].members : ~atoms[rings[q].members[i]].isLowercase

\* the calls mol.pathfind(ring.start, ring.end, ring.members) that ring
\* resolution makes on the graph of this state, each with what it returns
PathfindCalls ==
  {[G |-> molecules[p.mol].groups, start |-> rings[p.ring].start,
    end |-> rings[p.ring].end, allowed |-> Range(rings[p.ring].members),
    out |-> pathfind(atoms, molecules[p.mol].groups, rings[p.ring].start,
                     rings[p.ring].end, Range(rings[p.ring].members))] :
     p \in OwnedRings}

\* C18: every path returned by pathfind(start, end, allowed), replayed with
\* traceBondPath, begins at start, ends at end, follows a bond at every step,
\* visits only allowed atoms and visits no atom twice.
C18_SimplePaths ==
  pc = "resolveRings" =>
    \A c \in PathfindCalls :
      ~c.out.crashed =>
        \A i \in DOMAIN c.out.paths :
          LET t == traceBondPath(atoms, c.G, c.start, c.out.paths[i]) IN
          /\ t[1] = c.start /\ t[Len(t)] = c.end
          /\ IsJoined(atoms, c.G, t)
          /\ \A k \in 2 .. Len(t) : t[k] \in c.allowed
          /\ IsSimple(t)

\* the simple paths from the end of the path so far to endID, through
\* allowed atoms, as sequences of atoms
RECURSIVE SimplePaths(_, _, _, _, _)
SimplePaths(A, G, sofar, endID, allowed) ==
  IF Last(sofar) = endID THEN {sofar}
  ELSE UNION {SimplePaths(A, G, Append(sofar, n), endID, allowed) :
                n \in ({b.dest : b \in Range(getAllBonds(A, G, Last(sofar)))}
                       \cap allowed) \ Range(sofar)}

\* C19: pathfind(start, end, allowed) returns every simple path from start
\* to end within the allowed atoms, also when several routes share an atom.
C19_AllSimplePaths ==
  pc = "resolveRings" =>
    \A c \in PathfindCalls :
      ~c.out.crashed =>
        \A s \in SimplePaths(atoms, c.G, <<c.start>>, c.end, c.allowed) :
          \E i \in DOMAIN c.out.paths :
            traceBondPath(atoms, c.G, c.start, c.out.paths[i]) = s

\* the first atom of a branch is read and bonded
BranchFirstAtom ==
  /\ pc = "parse" /\ pc' = "parse"
  /\ Len(stack) >= 2 /\ Top.groups = <<>>
  /\ Len(atoms') = Len(atoms) + 1

\* the bond pending for the first atom of the branch: one written inside the
\* branch before its first atom, else one written directly before '('
PendingForBranch ==
  IF Top.currentBond # "" THEN Top.currentBond
  ELSE stack[Len(stack) - 1].currentBond

\* the nested _parse of a branch returns to the enclosing chain
BranchReturns == pc = "parse" /\ pc' = "parse" /\ Len(stack') = Len(stack) - 1

\* C20: the first atom of a parenthesized branch is bonded to the last atom
\* of the enclosing chain with the pending bond when one is pending and with
\* a single bond otherwise; a bond symbol written directly before '(' is the
\* type of that bond and is no longer pending for the enclosing chain when
\* the branch returns.
C20_BranchBond ==
  /\ [][BranchFirstAtom =>
          BondBetween(atoms', Top.parent, Len(atoms'))
            = {BondToUse(PendingForBranch)}]_vars
  /\ [][BranchReturns => stack'[Len(stack')].currentBond = ""]_vars

\* the molecules (places in ps.molecules) that hold atom g
HoldersOf(g) == {m \in DOMAIN molecules : g \in molecules[m].groups}

\* the block for a bare atom is about to read an atom while the flag set by
\* a separator is up and an explicit bond is pending
BondAfterSeparator ==
  /\ Dispatching /\ ~ChargeCond /\ ~InorganicCond /\ ~ChainCond /\ ~DigitCond
  /\ extractElement(Cur) # ""
  /\ Top.dontBondNext /\ Top.currentBond # ""

\* C21: in every accepted result both ends of every stored bond are atoms of
\* one and the same molecule, whatever follows a '.' or '>' (an atom, a
\* branch, a ring digit), and an explicit bond symbol between a separator and
\* the next atom is a Bond error.
C21_BondsWithinMolecule ==
  /\ [](pc = "accepted" =>
          \A a \in DOMAIN atoms : \A k \in DOMAIN atoms[a].bonds :
            HoldersOf(a) \cap HoldersOf(atoms[a].bonds[k].dest) # {})
  /\ [][BondAfterSeparator => pc' = "error" /\ err'.kind = "Bond"]_vars

\* the places of the input (from 1) where the explicit-bond block of an
\* accepted parse has read a bond symbol: a bond character that is not the
\* sign inside a charge clause
BondSymbols(s) ==
  {k \in DOMAIN s : isBondChar(s[k]) /\ (k > 1 => s[k - 1] # "{")}

\* a bond record of type t with an end that was written before place k
\* (places from 1, smilesStringPosition from 0)
BondFromBefore(A, k, t) ==
  \E a \in DOMAIN A : \E i \in DOMAIN A[a].bonds :
    LET b == A[a].bonds[i].dest IN
    /\ A[a].bonds[i].bond = t
    /\ ~A[a].isImplicit /\ ~A[b].isImplicit
    /\ \/ A[a].smilesStringPosition < k - 1
       \/ A[b].smilesStringPosition < k - 1

\* C22: no explicit bond symbol of an accepted input is dropped or retyped.
\* Checked in its weakest form: for every bond symbol of the input the
\* accepted result holds a bond of exactly that type with an end on an atom
\* written before the symbol (also when the symbol is followed by a ring
\* digit, a branch or a charge clause at the end of a chain).
C22_BondSymbolsKept ==
  (pc = "accepted" /\ run = 1) =>
    \A k \in BondSymbols(smiles) : BondFromBefore(atoms, k, smiles[k])

\* the charge block is entered with a clause "{+}" or "{-}" under the cursor
ClauseRead ==
  /\ Dispatching /\ ChargeCond
  /\ extractBetweenMatching(Top, "{", "}", Top.pos) = Top.pos + 2
  /\ Ch(Top, Top.pos + 1) \in {"+", "-"}

\* the charge the clause under the cursor stands for
ClauseCharge == IF Ch(Top, Top.pos + 1) = "+" THEN 1 ELSE -1

\* the number of charge clauses applied to an atom so far (each one adds
\* its three characters to the atom's length in the input)
ClauseCount(g) == (g.smilesStringLength - 1) \div 3

\* the charges of all atoms
Charges(A) == [g \in DOMAIN A |-> A[g].charge]

\* what the claim requires of a clause read for atom gid
ClauseOutcome(gid) ==
  IF (~opts.cumulativeCharge /\ ClauseCount(atoms[gid]) >= 1) \/ atoms[gid].isRadical
  THEN /\ pc' = "error" /\ err'.kind = "Syntax"
       /\ atoms' = atoms
  ELSE /\ pc' = "parse"
       /\ Charges(atoms') = [Charges(atoms) EXCEPT ![gid] = @ + ClauseCharge]

RingCloses(r) ==
  /\ pc = "parse" /\ pc' = "parse"
  /\ r \in DOMAIN rings' /\ rings[r].end = 0 /\ rings'[r].end # 0

\* the atoms on the cycles that the closure bond of the ring makes with the
\* bonds that exist: the atoms of the simple paths from its start to its end
CycleAtoms(A, ring) ==
  UNION {Range(s) : s \in SimplePaths(A, DOMAIN A, <<ring.start>>, ring.end,
                                      DOMAIN A)}

\* C24: when a ring digit closes a ring, the provisional member list starts
\* with the ring's start atom, contains its end atom and contains every atom
\* of the cycle that the closure bond makes with the existing bonds between
\* start and end (the parent of a branch included, when the ring is opened in
\* the branch and closed on the enclosing chain).
C24_OverCompleteMembers ==
  [][\A r \in DOMAIN rings :
       RingCloses(r) =>
         /\ rings'[r].members[1] = rings'[r].start
         /\ rings'[r].end \in Range(rings'[r].members)
         /\ CycleAtoms(atoms, rings'[r]) \subseteq Range(rings'[r].members)]_vars

\* SMILES.parse has called addImplicitHydrogens on every molecule
HydrogensCalled ==
  pc = "addHydrogens" /\ opts.addImplicitHydrogens /\ pc' = "checkBonds"

\* the allowed valences of the element that are not below the weight (both
\* doubled)
FittingValences2(el, b2) == {2 * v : v \in Range(organicSubset[el])} \cap
                            {w \in 0 .. 12 : w >= b2}

Smallest(S) == CHOOSE x \in S : \A y \in S : x <= y

\* the atoms of A2 that are not in A and that g holds a single bond to
NewHydrogensOf(A, A2, g) ==
  {h \in Len(A) + 1 .. Len(A2) :
     \E k \in DOMAIN A2[g].bonds : A2[g].bonds[k] = [bond |-> "-", dest |-> h]}

\* an atom that the call may give hydrogens: neutral, no radical, of the
\* organic subset, with an allowed valence that is not below its weight
Fillable(A, G, g) ==
  /\ A[g].charge = 0 /\ ~A[g].isRadical /\ inOrganicSubset(A[g])
  /\ FittingValences2(A[g].el, getBondCount2(A, G, g)) # {}

\* the call changes no field of an existing atom, and only appends to its
\* bond list
ExistingKept(A, A2) ==
  /\ Len(A2) >= Len(A)
  /\ \A g \in DOMAIN A :
       /\ [A2[g] EXCEPT !.bonds = <<>>] = [A[g] EXCEPT !.bonds = <<>>]
       /\ SubSeq(A2[g].bonds, 1, Len(A[g].bonds)) = A[g].bonds
       /\ \A k \in Len(A[g].bonds) + 1 .. Len(A2[g].bonds) :
            A2[g].bonds[k].dest > Len(A)

\* every new atom is a hydrogen flagged implicit, without bonds of its own,
\* in the molecule of the one atom that is bonded to it
NewAreHydrogens(A, A2, mols, mols2) ==
  \A h \in Len(A) + 1 .. Len(A2) :
    /\ A2[h].el = "H" /\ A2[h].isImplicit /\ A2[h].bonds = <<>>
    /\ \E m \in DOMAIN mols : \E g \in mols[m].groups :
         /\ h \in NewHydrogensOf(A, A2, g) /\ h \in mols2[m].groups
         /\ \A n \in DOMAIN mols : \A f \in mols[n].groups :
              h \in NewHydrogensOf(A, A2, f) => f = g

\* what the call does to atom g of molecule m; exact: also for a weight
\* that is not a whole number the atom ends on the valence
FilledTo(A, A2, G, G2, g, exact) ==
  LET b2  == getBondCount2(A, G, g)
      new == NewHydrogensOf(A, A2, g)
  IN  IF Fillable(A, G, g)
      THEN LET v2 == Smallest(FittingValences2(A[g].el, b2)) IN
           IF exact \/ b2 % 2 = 0
           THEN /\ 2 * Cardinality(new) = v2 - b2
                /\ getBondCount2(A2, G2, g) = v2
           ELSE /\ 2 * Cardinality(new) = v2 - b2 + 1
                /\ getBondCount2(A2, G2, g) = v2 + 1
      ELSE new = {} /\ getBondCount2(A2, G2, g) = b2

\* C25 (as stated): addImplicitHydrogens takes every neutral, non-radical
\* organic-subset atom of weight b that has an allowed valence v >= b to the
\* smallest such v by appending exactly v - b implicit, singly bonded
\* hydrogens, also when b is fractional; all other atoms get none, and no
\* existing atom or bond is changed.
C25_FilledToValence ==
  [][HydrogensCalled =>
       /\ ExistingKept(atoms, atoms')
       /\ NewAreHydrogens(atoms, atoms', molecules, molecules')
       /\ \A m \in DOMAIN molecules : \A g \in molecules[m].groups :
            FilledTo(atoms, atoms', molecules[m].groups, molecules'[m].groups,
                     g, TRUE)]_vars

\* C25 (amended): as stated for every atom whose weight b is a whole number;
\* an atom whose weight is fractional (an odd number of aromatic bonds) gets
\* v - b + 0.5 hydrogens and ends at weight v + 0.5.
C25_FilledToValenceWhole ==
  [][HydrogensCalled =>
       /\ ExistingKept(atoms, atoms')
       /\ NewAreHydrogens(atoms, atoms', molecules, molecules')
       /\ \A m \in DOMAIN molecules : \A g \in molecules[m].groups :
            FilledTo(atoms, atoms', molecules[m].groups, molecules'[m].groups,
                     g, FALSE)]_vars

\* the call has given one hydrogen to an atom with two aromatic bonds and
\* none to an atom that has all its bonds
C25_Witness ==
  /\ pc = "checkBonds" /\ opts.addImplicitHydrogens
  /\ \E g \in DOMAIN atoms : \E f \in DOMAIN atoms :
       /\ atoms[g].isLowercase
       /\ Cardinality({h \in DOMAIN atoms : atoms[h].isImplicit
                                            /\ Bonded(atoms, g, h)}) = 1
       /\ Cardinality({h \in DOMAIN atoms : BondBetween(atoms, g, h) = {":"}}) = 2
       /\ ~atoms[f].isImplicit
       /\ ~\E h \in DOMAIN atoms : atoms[h].isImplicit /\ Bonded(atoms, f, h)

\* the atoms of G that touching bonds lead to from the atoms of seen
RECURSIVE ReachableFrom(_, _, _)
ReachableFrom(A, G, seen) ==
  LET more == {b.dest : b \in UNION {Range(getAllBonds(A, G, g)) : g \in seen}}
              \cap G
  IN  IF more \subseteq seen THEN seen ELSE ReachableFrom(A, G, seen \cup more)

\* the number of places of the units at which atom g stands
TimesCounted(elements, g) ==
  Cardinality({<<u, k>> \in (DOMAIN elements) \X (1 .. 8) :
                 k \in DOMAIN elements[u] /\ elements[u][k] = g})

\* C26: generateCondensedFormula collapses an atom into a neighbour's unit
\* only when the atom has no touching bond but the one to that neighbour
\* (both directions considered); an atom without outgoing bonds that is
\* touched by two or more bonds is a unit of its own, and every atom
\* reachable from the first atom is counted exactly once.
C26_OnlyLeavesCollapsed ==
  (returned.method = "generateCondensedFormula" /\ ~returned.value.crashed) =>
    LET G  == molecules[returned.value.mol].groups
        es == returned.value.elements
    IN  /\ \A u \in DOMAIN es : \A k \in 2 .. Len(es[u]) :
              /\ Len(getAllBonds(atoms, G, es[u][k])) = 1
              /\ Bonded(atoms, es[u][1], es[u][k])
        /\ \A g \in G :
              (atoms[g].bonds = <<>> /\ Len(getAllBonds(atoms, G, g)) >= 2)
                => \E u \in DOMAIN es : es[u][1] = g
        /\ G # {} =>
             \A g \in ReachableFrom(atoms, G, {Keys(atoms, G)[1]}) :
               TimesCounted(es, g) = 1

\* every atom of G is reached from the first over touching bonds
IsConnected(A, G) ==
  G # {} /\ ReachableFrom(A, G, {Keys(A, G)[1]}) = G

\* every bond stored on an atom of G ends on an atom of G
BondsInside(A, G) ==
  \A g \in G : \A k \in DOMAIN A[g].bonds : A[g].bonds[k].dest \in G

\* the places of a text that hold an element symbol
AtomPlaces(text, els) == {k \in DOMAIN text : text[k] \in els}

\* the text of the subtree entered at atom g over a bond, and the atoms
\* written by then: the depth-first descent over the touching bonds in their
\* order, with all subtrees that have a text but the last in parentheses
RECURSIVE Subtree(_, _, _, _, _, _), Subtrees(_, _, _, _, _, _, _)
Subtree(A, G, showImplicits, g, bond, seen) ==
  IF g \in seen THEN [text |-> <<>>, seen |-> seen]
  ELSE LET own  == IF A[g].isImplicit /\ ~showImplicits THEN <<>>
                   ELSE BondText(bond, A[g]) \o GroupToString(A[g])
                        \o RingDigitText(A[g].ringDigits)
           kids == Subtrees(A, G, showImplicits, getAllBonds(A, G, g), 1,
                            seen \cup {g}, <<>>)
           n    == Len(kids.texts)
       IN  [text |-> own
                     \o Flatten([k \in 1 .. n - 1 |->
                                   <<"(">> \o kids.texts[k] \o <<")">>])
                     \o (IF n = 0 THEN <<>> ELSE kids.texts[n]),
            seen |-> kids.seen]

Subtrees(A, G, showImplicits, bonds, k, seen, texts) ==
  IF k > Len(bonds) THEN [texts |-> texts, seen |-> seen]
  ELSE LET sub == Subtree(A, G, showImplicits, bonds[k].dest, bonds[k].bond, seen)
       IN  Subtrees(A, G, showImplicits, bonds, k + 1, sub.seen,
                    IF sub.text = <<>> THEN texts ELSE Append(texts, sub.text))

\* what generateSMILES(showImplicits) gave for a molecule: no TypeError, each
\* atom that is to be written once, and the subtrees in parentheses but the
\* last
WrittenOnce(A, G, value) ==
  LET shown == {g \in G : ~A[g].isImplicit \/ value.showImplicits}
      lower == {g \in shown : A[g].isLowercase}
  IN  /\ ~value.crashed
      /\ \A e \in DOMAIN organicSubset \cup {"H"} :
           /\ Cardinality(AtomPlaces(value.text, {e}))
                = Cardinality({g \in shown \ lower : A[g].el = e})
           /\ ToLower(e) # e =>
                Cardinality(AtomPlaces(value.text, {ToLower(e)}))
                  = Cardinality({g \in lower : A[g].el = e})
      /\ value.text = Subtree(A, G, value.showImplicits, Keys(A, G)[1], "", {}).text

RECURSIVE MassOf(_, _)
MassOf(A, G) ==
  IF G = {} THEN 0
  ELSE LET g == CHOOSE g \in G : TRUE
       IN  GroupCalculateMr(A[g]) + MassOf(A, G \ {g})

\* C28: calculateMr returns the sum of the group masses of all atoms of the
\* molecule, each counted once, for every molecule connected under the
\* touching-bond relation, also after severBond and removeUnbondedGroups,
\* where an atom may be reachable from the first atom only against the
\* stored direction of a bond.
C28_MassOfAllAtoms ==
  (/\ returned.method = "calculateMr"
   /\ IsConnected(atoms, molecules[returned.value.mol].groups))
    => /\ ~returned.value.crashed
       /\ returned.value.Mr = MassOf(atoms, molecules[returned.value.mol].groups)

\* removeUnbondedGroups has returned
Pruned == pc # "pruned" /\ pc' = "pruned"

\* the molecule after the call and the value returned, against the atoms G
\* of the molecule before the call
PartitionedBy(A, G, after, value) ==
  LET reached == ReachableFrom(A, G, {value.startID})
  IN  /\ after = reached
      /\ value.startID \in after
      /\ value.discarded = G \ reached
      /\ after \cap value.discarded = {}
      /\ after \cup value.discarded = G

\* C29: after removeUnbondedGroups(start) the molecule holds exactly the
\* atoms reachable from start over the touching bonds, followed in both
\* directions, start among them; the returned set holds exactly the other
\* atoms; the two sets are disjoint and together are the atoms before the
\* call; no bond record is changed.
C29_PartitionByReach ==
  [][Pruned =>
       /\ PartitionedBy(atoms, molecules[returned'.value.mol].groups,
                        molecules'[returned'.value.mol].groups, returned'.value)
       /\ atoms' = atoms
       /\ \A m \in DOMAIN molecules :
            m # returned'.value.mol => molecules'[m] = molecules[m]]_vars

\* a bond was severed and the molecule pruned from an atom that the atoms
\* kept are bonded to only against the stored direction; atoms were returned
C29_Witness ==
  /\ pc = "pruned" /\ returned.value.discarded # {}
  /\ atoms[returned.value.startID].bonds = <<>>
  /\ ~atoms[returned.value.startID].isImplicit
  /\ \E g \in molecules[returned.value.mol].groups :
       /\ ~atoms[g].isImplicit
       /\ returned.value.startID \in Range(Dests(atoms[g].bonds))

\* the sum of the numbers of touching bonds of the atoms S of a molecule G
RECURSIVE SumTouching(_, _, _)
SumTouching(A, G, S) ==
  IF S = {} THEN 0
  ELSE LET g == CHOOSE g \in S : TRUE
       IN  Len(getAllBonds(A, G, g)) + SumTouching(A, G, S \ {g})

TouchingBonds(A, G) == SumTouching(A, G, G)

\* pathfind called on the graph of this state from any atom to any atom of
\* a molecule with a ring inside a ring, all atoms allowed
PathfindCallsAnywhere ==
  {[G |-> molecules[m].groups, start |-> se[1], end |-> se[2],
    allowed |-> molecules[m].groups,
    out |-> pathfind(atoms, molecules[m].groups, se[1], se[2],
                     molecules[m].groups)] :
     m \in {n \in DOMAIN molecules : Len(molecules[n].rings) >= 2},
     se \in {p \in (DOMAIN atoms) \X (DOMAIN atoms) :
               \E n \in DOMAIN molecules :
                 /\ Len(molecules[n].rings) >= 2
                 /\ p[1] \in molecules[n].groups /\ p[2] \in molecules[n].groups}}

\* the calls of pathfind the iteration counts are taken from
PathfindCounted ==
  PathfindCalls \cup {c \in PathfindCallsAnywhere : c.start \in c.G /\ c.end \in c.G}

\* C30 (as stated): pathfind ends on every molecule, start, end and allowed
\* set, also on graphs with cycles and fused rings, after at most as many
\* iterations as there are atoms plus touching bonds counted over all atoms.
C30_IterationBound ==
  pc = "resolveRings" =>
    \A c \in PathfindCounted :
      /\ c.out.ended
      /\ c.out.iterations <= Cardinality(c.G) + TouchingBonds(atoms, c.G)

\* C30 (amended): pathfind ends after at most one plus twice the touching
\* bonds counted over all atoms iterations: every iteration moves a cursor,
\* which happens once for a touching bond of an atom, or takes an atom from
\* the stack, which was put there by a cursor move or was the start.
C30_IterationBoundTwice ==
  pc = "resolveRings" =>
    \A c \in PathfindCounted :
      /\ c.out.ended
      /\ c.out.iterations <= 2 * TouchingBonds(atoms, c.G) + 1

\* ring resolution calls pathfind on a ring with a ring inside, and the
\* search takes more iterations than there are atoms and touching bonds
C30_Witness ==
  /\ pc = "resolveRings" /\ Len(rings) >= 2
  /\ \E c \in PathfindCalls :
       /\ ~c.out.crashed /\ c.out.ended /\ Len(c.out.paths) >= 2
       /\ c.out.iterations > Cardinality(c.G) + TouchingBonds(atoms, c.G)

=============================================================================
